---- MODULE Spec2Model ----
(***************************************************************************)
(* A model of duckarrow: the Flight SQL connection pool (package flight,   *)
(* pool.go), the pool key derivation, and the table-scan state machine of  *)
(* the attached-database path, the duckarrow_go_scan callbacks.            *)
(* Further sections model the validation functions, the replacement scan, *)
(* the global configuration, the query builder, duckarrow_execute, the     *)
(* metadata calls of the client, the attached catalog, the C strings       *)
(* handed to the host, and ATTACH and DETACH.                              *)
(*                                                                         *)
(* Strings are sequences of byte values.  Time is counted in minutes.      *)
(***************************************************************************)
EXTENDS Integers, Sequences, FiniteSets, TLC

(***************************************************************************)
(* Bounds of the model.                                                    *)
(***************************************************************************)
\* Connect calls that can succeed in one behaviour (client identities).
MaxClients == 3
\* The clock stops advancing at MaxTime minutes.
MaxTime == 9

\* The callers of the pool: scans (bind ... free) and execute calls.
Threads == {"t1", "t2"}
NoThread == "none"

(***************************************************************************)
(* Pool: configuration and key.                                            *)
(***************************************************************************)
\* Pool.maxIdle, in minutes (NewPool).
maxIdle == 5

\* fmt.Sprintf("%v", b) for a bool b: the bytes of "true" or "false".
FormatBool(b) == IF b THEN <<116, 114, 117, 101>> ELSE <<102, 97, 108, 115, 101>>

\* The bytes Pool.configKey writes into the hash, in order.
KeyBytes(c) ==
  c.URI \o <<0>> \o c.Username \o <<0>> \o c.Password \o <<0>> \o FormatBool(c.SkipVerify)

\* Pool.configKey: SHA-256 over KeyBytes, hex encoded.  The hash is taken to
\* be injective on its input, so the key is represented by the input itself.
configKey(c) == KeyBytes(c)

\* The configs the callers of the pool use: same URI, two users.
PoolConfigs ==
  { [URI |-> <<103>>, Username |-> <<117>>, Password |-> <<112>>, SkipVerify |-> FALSE],
    [URI |-> <<103>>, Username |-> <<118>>, Password |-> <<112>>, SkipVerify |-> FALSE] }

NoConn == [Client |-> 0, IsPooled |-> FALSE]

VARIABLES
  mu,       \* Pool.mu: the thread that holds the mutex, or NoThread
  clients,  \* Pool.clients: key -> PooledClient [client, lastUsed, inUse]
  now,      \* time.Now(), minutes
  op,       \* the pool operation that returned last
  cl,       \* the Client objects Connect has returned: id -> [db, conn, closes]
  pc,       \* per thread: where the caller stands
  cfg,      \* per thread: the flight.Config of the call in progress
  conn,     \* per thread: the ConnectionResult it holds (NoConn: none)
  via       \* per thread: the branch of Get that produced conn

VARIABLES
  scan,     \* the ScanBindData behind the scan handle
  stmts,    \* the statements Client.Query has created: id -> [closed]
  readers,  \* the record readers Client.Query has returned: id -> [n, err, eos, released]
  refs,     \* the scan's Retain and Release calls per record batch: <<reader, index>> -> [ret, rel]
  emitted,  \* the chunk the latest emitting next call wrote: [seq, reader, batch, from, n]
  last      \* the latest next call: [calls, ret, emit, rows, pre, held, adv]; adv
            \* tells whether it called Reader.Next(), held is the number of
            \* batches the scan held when it did

VARIABLES
  keyIn,    \* two configs handed to configKey
  keyOut    \* the two keys configKey returned for them (<<>>: not yet called)

poolVars == <<mu, clients, now, cl, op>>
threadVars == <<pc, cfg, conn, via>>
scanVars == <<scan, stmts, readers, refs, emitted, last>>
VARIABLES
  projIn,   \* the scan handle and the column ids handed to init:
            \* [ColumnNames, SchemaName, TableName, columnIDs]
  projOut   \* what init recorded and sent: [ProjectedColumns, query] (<<>>: not yet called)

VARIABLES
  valIn,    \* the string handed to a validation function: [fn, s]
  valOut    \* the error it returned, "nil" for none ("": not yet called)

VARIABLES
  rwIn,     \* the rewriter's call: [uri, name], the configured URI and the table name
  rwOut     \* what the rewriter left in the scan info: [kind, uri, query] (<<>>: not yet called)

VARIABLES
  gcfg,     \* duckArrowConfig: [uri, username, password, skipVerify]
  cmu,      \* duckArrowConfig.mu: [w, r], the writer (or NoThread) and the readers
  cth,      \* per thread: its call of configure or GetDuckArrowConfig,
            \* [pc, step, arg, res, ret]
  lastSet   \* the values of the SetDuckArrowConfig call that returned last

VARIABLES
  dead      \* the clients whose transport has failed (dead stream, keepalive timeout)

VARIABLES
  exIn,     \* the row handed to duckarrow_execute: [null, sql], sql as [head, pad]
  exOut     \* what the call left: [error, null, value, executes, gets, gives] (<<>>: not yet called)

VARIABLES
  mdIn,     \* a metadata call and what the server will answer: [fn, adbc, sql]
  mdOut     \* what the call did: [adbcCalls, sqlCalls, err, reports, result] (<<>>: not yet called)

VARIABLES
  scache,   \* DuckArrowCatalog::schema_cache: the schema names that have an entry
  tcache,   \* DuckArrowSchemaEntry::table_cache of schema "s": key -> table entry
  nent,     \* the table entries materialized so far (entry identities 1..nent)
  lk,       \* per thread: its table lookup [pc, name, ret, hit, calls, err]
  cop       \* the catalog operation that returned last: [op, error, listed, handed]

VARIABLES
  heap      \* the C strings the extension has allocated and handed to the host,
            \* in order: [kind, frees, by]

VARIABLES
  catalogs, \* the DuckArrowCatalog objects ATTACH has created, in order:
            \* [username, password, connection_handle, opened, attached]
  handles,  \* the cgo handles duckarrow_go_connect has created: id ->
            \* [Client, Username, Password, IsPooled, deleted]
  scanOf    \* the catalog whose table the scan is bound for (0: none)

VARIABLES
  qbIn,     \* the arguments of buildProjectedQuery: [table, columns]
  qbOut     \* [query, name]: the query built and the name extracted from it (<<>>: not yet called)

keyVars == <<keyIn, keyOut>>
projVars == <<projIn, projOut>>
valVars == <<valIn, valOut>>
rwVars == <<rwIn, rwOut>>
cfgVars == <<gcfg, cmu, cth, lastSet>>
\* Everything outside the pool, its callers and the scan.
qbVars == <<qbIn, qbOut>>
exVars == <<exIn, exOut>>
mdVars == <<mdIn, mdOut>>
catVars == <<scache, tcache, nent, lk, cop>>
\* The state of the parts added below the scan: the transport of the clients,
\* the query builder, the execute function, the metadata calls and the
\* attached catalog with the strings handed to it.
attVars == <<catalogs, handles, scanOf>>
extVars == <<dead, qbVars, exVars, mdVars, catVars, heap, attVars>>
otherVars == <<keyVars, projVars, valVars, rwVars, cfgVars, extVars>>
nonPoolVars == <<scanVars, otherVars>>
vars == <<mu, clients, now, cl, op, pc, cfg, conn, via, scan, stmts, readers, refs, emitted, last,
          keyIn, keyOut, projIn, projOut, valIn, valOut, rwIn, rwOut, gcfg, cmu, cth, lastSet,
          dead, qbIn, qbOut, exIn, exOut, mdIn, mdOut, scache, tcache, nent, lk, cop, heap,
          catalogs, handles, scanOf>>

\* Client.IsHealthy: both handles are non-nil.
IsHealthy(id) == cl[id].conn /\ cl[id].db

\* Client.Close: closes conn and db; the handles are not set to nil.
ClientClose(c, id) == [c EXCEPT ![id].closes = @ + 1]

\* flight.Connect on success: a new Client with both handles set.
NewClient(c) == Append(c, [db |-> TRUE, conn |-> TRUE, closes |-> 0])

\* A staleness test that still accepts an entry idle for exactly maxIdle.
FreshInclusive(e) == now - e.lastUsed <= maxIdle

\* time.Since(pc.lastUsed) < p.maxIdle
Fresh(e) == now - e.lastUsed < maxIdle

\* A Get that does not look at the in-use flag.
GetCaseIgnoreInUse(k) ==
  IF k \in DOMAIN clients
  THEN IF IsHealthy(clients[k].client) /\ Fresh(clients[k]) THEN "reuse" ELSE "replace"
  ELSE "new"

\* The case Get takes for key k under the mutex:
\*   "unmanaged" entry present and in use;  "reuse" present, idle, healthy and
\*   fresh;  "replace" present, idle, unhealthy or stale;  "new" absent.
GetCase(k) ==
  IF k \in DOMAIN clients
  THEN IF clients[k].inUse THEN "unmanaged"
       ELSE IF IsHealthy(clients[k].client) /\ Fresh(clients[k]) THEN "reuse"
       ELSE "replace"
  ELSE "new"

\* delete(p.clients, key)
Delete(m, k) == [j \in DOMAIN m \ {k} |-> m[j]]

\* p.clients[key] = pc, with pc.inUse.Store(true) and lastUsed = time.Now()
Install(m, k, id) ==
  [j \in DOMAIN m \cup {k} |->
     IF j = k THEN [client |-> id, lastUsed |-> now, inUse |-> TRUE] ELSE m[j]]

\* A Release that clears the flag and leaves the last-used time alone.
ReleaseEntryNoRefresh(m, k) ==
  IF k \in DOMAIN m THEN [m EXCEPT ![k] = [@ EXCEPT !.inUse = FALSE]] ELSE m

\* A Release that refreshes the last-used time and leaves the flag set.
ReleaseEntryKeepFlag(m, k) ==
  IF k \in DOMAIN m THEN [m EXCEPT ![k] = [@ EXCEPT !.lastUsed = now]] ELSE m

\* The body of Pool.Release under the mutex.
ReleaseEntry(m, k) ==
  IF k \in DOMAIN m
  THEN [m EXCEPT ![k] = [@ EXCEPT !.lastUsed = now, !.inUse = FALSE]]
  ELSE m

\* The clients Pool.Close closes: every entry's client.
PooledIds(m) == {m[k].client : k \in DOMAIN m}

(***************************************************************************)
(* Pool.Get.  The mutex is taken on entry and held until Get returns       *)
(* (defer p.mu.Unlock()), also across flight.Connect.  A Get that needs    *)
(* no Connect is one step; one that connects is two: GetLock takes the     *)
(* mutex and decides, GetConnected / GetConnectFailed is Connect returning.*)
(***************************************************************************)
GetLock(t, c) ==
  /\ pc[t] = "idle"
  /\ mu = NoThread
  /\ cfg' = [cfg EXCEPT ![t] = c]
  /\ LET k == configKey(c)
         case == GetCase(k)
     IN /\ via' = [via EXCEPT ![t] = case]
        /\ IF case = "reuse"
           THEN /\ clients' = [clients EXCEPT ![k] = [@ EXCEPT !.inUse = TRUE, !.lastUsed = now]]
                /\ conn' = [conn EXCEPT ![t] = [Client |-> clients[k].client, IsPooled |-> TRUE]]
                /\ pc' = [pc EXCEPT ![t] = "holding"]
                /\ op' = "Get"
                /\ UNCHANGED <<mu, cl>>
           ELSE /\ mu' = t
                /\ UNCHANGED op
                /\ pc' = [pc EXCEPT ![t] = "connecting"]
                /\ IF case = "replace"
                   THEN /\ cl' = ClientClose(cl, clients[k].client)
                        /\ clients' = Delete(clients, k)
                   ELSE UNCHANGED <<cl, clients>>
                /\ UNCHANGED conn
  /\ UNCHANGED <<now, nonPoolVars>>

\* flight.Connect returns a client inside Get.
GetConnected(t) ==
  /\ pc[t] = "connecting"
  /\ mu = t
  /\ Len(cl) < MaxClients
  /\ cl' = NewClient(cl)
  /\ LET id == Len(cl) + 1
         k == configKey(cfg[t])
     IN IF via[t] = "unmanaged"
        THEN /\ conn' = [conn EXCEPT ![t] = [Client |-> id, IsPooled |-> FALSE]]
             /\ UNCHANGED clients
        ELSE /\ conn' = [conn EXCEPT ![t] = [Client |-> id, IsPooled |-> TRUE]]
             /\ clients' = Install(clients, k, id)
  /\ pc' = [pc EXCEPT ![t] = "holding"]
  /\ mu' = NoThread
  /\ op' = "Get"
  /\ UNCHANGED <<now, cfg, via, nonPoolVars>>

\* flight.Connect returns an error inside Get: Get returns (nil, err).
GetConnectFailed(t) ==
  /\ pc[t] = "connecting"
  /\ mu = t
  /\ pc' = [pc EXCEPT ![t] = "idle"]
  /\ via' = [via EXCEPT ![t] = "none"]
  /\ mu' = NoThread
  /\ op' = "Get"
  /\ UNCHANGED <<clients, now, cl, cfg, conn, nonPoolVars>>

\* The holder starts giving the connection back: free on a scan (batch, reader
\* and statement are released first), the deferred function of execute, or the
\* failure path of bind.
Free(t) ==
  /\ pc[t] = "holding"
  /\ pc' = [pc EXCEPT ![t] = "freeing"]
  /\ UNCHANGED <<poolVars, cfg, conn, via, nonPoolVars>>

\* A release under the credentials of the global config of the moment.
CurrentConfig(t) ==
  [URI |-> cfg[t].URI, Username |-> gcfg.username, Password |-> gcfg.password,
   SkipVerify |-> gcfg.skipVerify]

\* The config the holder gives to ReleaseConnection: the cfg it called
\* GetConnection with, which bind stores as bindData.Config.
CapturedConfig(t) == cfg[t]

\* flight.ReleaseConnection(cfg) for a connection handed out as pooled:
\* Pool.Release takes the mutex, which blocks while another thread holds it.
Release(t) ==
  /\ pc[t] = "freeing"
  /\ conn[t].IsPooled
  /\ mu = NoThread
  /\ clients' = ReleaseEntry(clients, configKey(CapturedConfig(t)))
  /\ pc' = [pc EXCEPT ![t] = "idle"]
  /\ conn' = [conn EXCEPT ![t] = NoConn]
  /\ via' = [via EXCEPT ![t] = "none"]
  /\ op' = "Release"
  /\ UNCHANGED <<mu, now, cl, cfg, nonPoolVars>>

\* connResult.Client.Close() for a connection handed out as non-pooled.
CloseUnmanaged(t) ==
  /\ pc[t] = "freeing"
  /\ ~conn[t].IsPooled
  /\ cl' = ClientClose(cl, conn[t].Client)
  /\ pc' = [pc EXCEPT ![t] = "idle"]
  /\ conn' = [conn EXCEPT ![t] = NoConn]
  /\ via' = [via EXCEPT ![t] = "none"]
  /\ UNCHANGED <<mu, clients, now, op, cfg, nonPoolVars>>

\* A Close that drops the entries without closing their clients.
CloseNone(c, S) == c

RECURSIVE CloseAll(_, _)
\* pc.client.Close() for each client of S.
CloseAll(c, S) ==
  IF S = {} THEN c
  ELSE LET id == CHOOSE x \in S : TRUE IN CloseAll(ClientClose(c, id), S \ {id})

\* Pool.Close: closes every entry's client and empties the map.
PoolClose ==
  /\ mu = NoThread
  /\ cl' = CloseAll(cl, PooledIds(clients))
  /\ clients' = <<>>
  /\ op' = "Close"
  /\ UNCHANGED <<mu, now, threadVars, nonPoolVars>>

\* Time passes: a minute less than the idle period, or the whole idle period.
Tick ==
  /\ \E d \in {maxIdle - 1, maxIdle} :
        /\ now + d <= MaxTime
        /\ now' = now + d
  /\ UNCHANGED <<mu, clients, cl, op, threadVars, nonPoolVars>>

\* The scan of a holder fails with a transport error: Reader.Next() returns
\* false with Reader.Err() set, next returns -1, the host ends the scan and
\* free gives the connection back.  The Client object is not touched: its
\* handles stay as they are.
TransportError(t) ==
  /\ pc[t] = "holding"
  /\ conn[t].IsPooled
  /\ conn[t].Client \notin dead
  /\ dead' = dead \cup {conn[t].Client}
  /\ pc' = [pc EXCEPT ![t] = "freeing"]
  /\ UNCHANGED <<poolVars, cfg, conn, via, scanVars, keyVars, projVars, valVars, rwVars, cfgVars,
                 qbVars, exVars, mdVars, catVars, heap, attVars>>

(***************************************************************************)
(* The scan state machine: duckarrow_go_scan_table_bind, _init, _next and  *)
(* _free, called by one host thread for one scan handle.                   *)
(***************************************************************************)
\* Reader.Next calls that can deliver a batch, per reader.
MaxBatches == 2
\* duckarrow_go_scan_init calls on one handle (one per execution of the plan).
MaxInits == 2

\* const maxChunkSize in duckarrow_go_scan_next: rows of one DuckDB chunk.
maxChunkSize == 2048

\* The row counts a record batch of the remote stream can have.
BatchSizes == {0, 1, maxChunkSize, maxChunkSize + 1}

\* The host thread that owns the scan handle.
ScanThread == "t1"

Nil == <<>>

Min(a, b) == IF a < b THEN a ELSE b

\* Client.Query succeeded: a new statement and its record reader.
OpenStmt(st) == Append(st, [closed |-> 0])
OpenReader(rd) == Append(rd, [n |-> 0, err |-> FALSE, eos |-> FALSE, released |-> 0])

\* Stmt.Close() and Reader.Release()
CloseStmt(st, id) == [st EXCEPT ![id].closed = @ + 1]
ReleaseReader(rd, id) == [rd EXCEPT ![id].released = @ + 1]

\* A Release that is forgotten.
ReleaseBatchSkipped(rf, b) == rf

\* CurrentBatch.Retain() and CurrentBatch.Release(), counted per batch.
Retain(rf, b) ==
  IF b \in DOMAIN rf THEN [rf EXCEPT ![b].ret = @ + 1]
  ELSE [x \in DOMAIN rf \cup {b} |-> IF x = b THEN [ret |-> 1, rel |-> 0] ELSE rf[x]]
ReleaseBatch(rf, b) == [rf EXCEPT ![b].rel = @ + 1]

\* The batches the scan holds a reference to.
Held(rf) == {b \in DOMAIN rf : rf[b].ret > rf[b].rel}

\* Reader.RecordBatch() after the reader delivered its i-th batch, of n rows.
Batch(r, i, n) == [reader |-> r, index |-> i, rows |-> n]

\* The identity of a record batch.
BatchId(b) == <<b.reader, b.index>>

\* CurrentBatch.NumRows()
NumRows(b) == b.rows

\* What Reader.Next() can do: deliver a batch of n rows, end the stream, or
\* fail (Reader.Err() # nil).  End and failure are final.
NextOutcomes(r) ==
  IF r.err THEN {[kind |-> "error", n |-> 0]}
  ELSE IF r.eos THEN {[kind |-> "eos", n |-> 0]}
  ELSE {[kind |-> "error", n |-> 0], [kind |-> "eos", n |-> 0]}
       \cup (IF r.n < MaxBatches
             THEN {[kind |-> "batch", n |-> n] : n \in BatchSizes} ELSE {})

\* rowsToEmit without the cap.
RowsToEmitUncapped(rows, pos) == rows - pos

\* rowsToEmit: the rows left in the batch, at most maxChunkSize.
RowsToEmit(rows, pos) == Min(rows - pos, maxChunkSize)

\* A cursor that is not advanced.
AdvanceStuck(pos, n) == pos

\* The cursor after a chunk of n rows: bindData.BatchPosition += rowsToEmit.
Advance(pos, n) == pos + n

\* The number of batches the scan holds at the moment next calls Reader.Next():
\* the previous batch is released first.
HeldAtAdvance(rf, cur) ==
  Cardinality(Held(IF cur = Nil THEN rf ELSE ReleaseBatch(rf, BatchId(cur))))

\* A bind callback whose failure path returns without giving the connection
\* back.
ScanBindQueryLeak(t) ==
  /\ t = ScanThread
  /\ pc[t] = "holding"
  /\ scan.state = "none"
  /\ \/ /\ stmts' = CloseStmt(OpenStmt(stmts), Len(stmts) + 1)
        /\ readers' = ReleaseReader(OpenReader(readers), Len(readers) + 1)
        /\ scan' = [scan EXCEPT !.state = "bound"]
        /\ UNCHANGED pc
     \/ /\ pc' = [pc EXCEPT ![t] = "idle"]
        /\ UNCHANGED <<scan, stmts, readers>>
  /\ UNCHANGED <<poolVars, cfg, conn, via, refs, emitted, last, otherVars>>

\* The bind callback after Get returned a connection: the schema probe
\* (SELECT * ... WHERE 1=0).  On success the probe's reader is released and its
\* statement closed at once and the handle is created; on failure the
\* connection is given back.
ScanBindQuery(t) ==
  /\ t = ScanThread
  /\ pc[t] = "holding"
  /\ scan.state = "none"
  /\ \/ /\ stmts' = CloseStmt(OpenStmt(stmts), Len(stmts) + 1)
        /\ readers' = ReleaseReader(OpenReader(readers), Len(readers) + 1)
        /\ scan' = [scan EXCEPT !.state = "bound"]
        /\ UNCHANGED pc
     \/ /\ pc' = [pc EXCEPT ![t] = "freeing"]
        /\ UNCHANGED <<scan, stmts, readers>>
  /\ UNCHANGED <<poolVars, cfg, conn, via, refs, emitted, last, otherVars>>

\* duckarrow_go_scan_init: runs the projected query on the scan's client and
\* stores the statement and the reader in the handle.  The projection and the
\* SQL text do not touch the resources tracked here.
ScanInit(t) ==
  /\ t = ScanThread
  /\ scan.state = "bound"
  /\ scan.inits < MaxInits
  /\ \/ /\ stmts' = OpenStmt(stmts)
        /\ readers' = OpenReader(readers)
        /\ scan' = [scan EXCEPT !.Stmt = Len(stmts) + 1, !.Reader = Len(readers) + 1,
                                !.inits = @ + 1]
     \/ \* Client.Query fails: a statement it created is closed again
        /\ \/ stmts' = CloseStmt(OpenStmt(stmts), Len(stmts) + 1)
           \/ stmts' = stmts
        /\ scan' = [scan EXCEPT !.inits = @ + 1]
        /\ UNCHANGED readers
  /\ UNCHANGED <<poolVars, threadVars, refs, emitted, last, otherVars>>

\* A Done flag that next does not look at.
IsDoneIgnored(sc) == FALSE

\* atomic.LoadInt32(&bindData.Done) == 1
IsDone(sc) == sc.Done

\* The tail of next: the chunk is written from sc.CurrentBatch at sc.BatchPosition.
EmitChunk(sc, rf, rd, held, adv) ==
  LET b == sc.CurrentBatch
      rows == NumRows(b)
      pre == sc.BatchPosition
      n == RowsToEmit(rows, pre)
  IN /\ scan' = [sc EXCEPT !.BatchPosition = Advance(pre, n)]
     /\ refs' = rf
     /\ readers' = rd
     /\ emitted' = [seq |-> 1 - emitted.seq, reader |-> b.reader, batch |-> b.index,
                    from |-> pre, n |-> n]
     /\ last' = [calls |-> Min(last.calls + 1, 1), ret |-> n, emit |-> TRUE, rows |-> rows,
                 pre |-> pre, held |-> held, adv |-> adv]

\* next returns v without writing a chunk.
ReturnOnly(sc, rf, rd, v, held, adv) ==
  /\ scan' = sc
  /\ refs' = rf
  /\ readers' = rd
  /\ emitted' = emitted
  /\ last' = [calls |-> Min(last.calls + 1, 1), ret |-> v, emit |-> FALSE, rows |-> 0,
              pre |-> 0, held |-> held, adv |-> adv]

\* A reader error that is taken for the end of the stream.
ReaderErrorAsEnd(sc, rf, rd, held) ==
  ReturnOnly([sc EXCEPT !.Done = TRUE], rf, rd, 0, held, TRUE)

\* Reader.Next() returned false and Reader.Err() is set: next returns -1.
ReaderError(sc, rf, rd, held) == ReturnOnly(sc, rf, rd, -1, held, TRUE)

\* duckarrow_go_scan_next
ScanNext(t) ==
  /\ t = ScanThread
  /\ scan.state = "bound"
  /\ IF IsDone(scan) THEN ReturnOnly(scan, refs, readers, 0, 0, FALSE)
     ELSE IF scan.Reader = 0 THEN ReturnOnly(scan, refs, readers, -1, 0, FALSE)
     ELSE IF scan.CurrentBatch = Nil \/ scan.BatchPosition >= NumRows(scan.CurrentBatch)
     THEN LET cur == scan.CurrentBatch
              rf1 == IF cur = Nil THEN refs ELSE ReleaseBatch(refs, BatchId(cur))
              sc1 == [scan EXCEPT !.CurrentBatch = Nil]
              held == HeldAtAdvance(refs, cur)
              r == scan.Reader
          IN \E o \in NextOutcomes(readers[r]) :
               CASE o.kind = "error" ->
                      ReaderError(sc1, rf1, [readers EXCEPT ![r].err = TRUE], held)
                 [] o.kind = "eos" ->
                      ReturnOnly([sc1 EXCEPT !.Done = TRUE], rf1,
                                 [readers EXCEPT ![r].eos = TRUE], 0, held, TRUE)
                 [] o.kind = "batch" ->
                      LET rd2 == [readers EXCEPT ![r].n = @ + 1]
                          b == Batch(r, rd2[r].n, o.n)
                      IN EmitChunk([sc1 EXCEPT !.CurrentBatch = b, !.BatchPosition = 0],
                                   Retain(rf1, BatchId(b)), rd2, held, TRUE)
     ELSE EmitChunk(scan, refs, readers, 0, FALSE)
  /\ UNCHANGED <<poolVars, threadVars, stmts, otherVars>>

\* duckarrow_go_scan_free up to the connection: releases the current batch, the
\* reader and the statement the handle holds, then gives the connection back
\* (Release or CloseUnmanaged) and deletes the handle.
ScanFree(t) ==
  /\ t = ScanThread
  /\ scan.state = "bound"
  /\ pc[t] = "holding"
  /\ refs' = IF scan.CurrentBatch # Nil THEN ReleaseBatch(refs, BatchId(scan.CurrentBatch))
              ELSE refs
  /\ readers' = IF scan.Reader # 0 THEN ReleaseReader(readers, scan.Reader) ELSE readers
  /\ stmts' = IF scan.Stmt # 0 THEN CloseStmt(stmts, scan.Stmt) ELSE stmts
  /\ scan' = [scan EXCEPT !.state = "freed"]
  /\ pc' = [pc EXCEPT ![t] = "freeing"]
  /\ UNCHANGED <<poolVars, cfg, conn, via, emitted, last, otherVars>>

(***************************************************************************)
(* Pool.configKey as a function of its argument, on configs whose strings  *)
(* may hold any bytes, NUL included.                                       *)
(***************************************************************************)
\* The longest string field of a config handed to configKey.
MaxStrLen == 1

\* The byte values of the strings: NUL and the letter a.
Bytes == {0, 97}

RECURSIVE Strings(_)
\* The byte strings of length at most n.
Strings(n) ==
  IF n = 0 THEN {<<>>}
  ELSE Strings(n - 1) \cup {Append(w, b) : w \in {x \in Strings(n - 1) : Len(x) = n - 1}, b \in Bytes}

KeyConfigs ==
  [URI : Strings(MaxStrLen), Username : Strings(MaxStrLen), Password : Strings(MaxStrLen),
   SkipVerify : BOOLEAN]

NoKeys ==
  /\ keyIn = <<CHOOSE c \in PoolConfigs : TRUE, CHOOSE c \in PoolConfigs : TRUE>>
  /\ keyOut = <<>>

\* p.configKey(cfg1), p.configKey(cfg2)
ComputeKeys ==
  /\ keyOut = <<>>
  /\ keyOut' = <<configKey(keyIn[1]), configKey(keyIn[2])>>
  /\ UNCHANGED <<keyIn, extVars, poolVars, threadVars, scanVars, cfgVars, projVars, valVars, rwVars>>

(***************************************************************************)
(* The SQL of init.  Strings are sequences of one-character strings.       *)
(***************************************************************************)
\* The most columns a bound table has.
MaxCols == 2

\* The most column ids the host hands to init.
MaxProj == 2

\* The names of columns, schemas and tables: with and without double quotes.
Idents == { <<"a">>, <<"b", "\"">>, <<"\"", "\"">> }

\* strings.ReplaceAll(s, `"`, `""`)
RECURSIVE EscapeQuotes(_)
EscapeQuotes(s) ==
  IF s = <<>> THEN <<>>
  ELSE (IF Head(s) = "\"" THEN <<"\"", "\"">> ELSE <<Head(s)>>) \o EscapeQuotes(Tail(s))

\* fmt.Sprintf(`"%s"`, escaped)
QuoteIdent(s) == <<"\"">> \o EscapeQuotes(s) \o <<"\"">>

\* strings.Join(cols, sep)
RECURSIVE Join(_, _)
Join(cols, sep) ==
  IF cols = <<>> THEN <<>>
  ELSE IF Len(cols) = 1 THEN cols[1]
  ELSE cols[1] \o sep \o Join(Tail(cols), sep)

\* A star that is used for the full-size projection only.
UsesStarFullOnly(names, proj) == Len(proj) = Len(names)

\* count == 0 || count == len(bindData.ColumnNames)
UsesStar(names, proj) == Len(proj) = 0 \/ Len(proj) = Len(names)

\* columnList of init; colIdx counts from 0, sequences from 1.  An index
\* outside the column names leaves its entry empty.
ColumnList(names, proj) ==
  IF UsesStar(names, proj) THEN <<"*">>
  ELSE Join([i \in 1..Len(proj) |->
               IF proj[i] >= 0 /\ proj[i] < Len(names)
               THEN QuoteIdent(names[proj[i] + 1]) ELSE <<>>],
            <<",", " ">>)

\* fmt.Sprintf(`SELECT %s FROM "%s"."%s"`, ...) and `SELECT %s FROM "%s"`
ProjectedQuery(schema, table, columnList) ==
  <<"S", "E", "L", "E", "C", "T", " ">> \o columnList \o <<" ", "F", "R", "O", "M", " ">>
    \o (IF schema # <<>> THEN QuoteIdent(schema) \o <<".">> ELSE <<>>) \o QuoteIdent(table)

\* Reading SQL back: the quoted identifier whose opening quote is at s[i - 1],
\* with doubled quotes undone, and the position after its closing quote.
RECURSIVE ReadIdent(_, _, _)
ReadIdent(s, i, acc) ==
  IF i > Len(s) THEN [ok |-> FALSE, name |-> acc, next |-> i]
  ELSE IF s[i] # "\"" THEN ReadIdent(s, i + 1, Append(acc, s[i]))
  ELSE IF i < Len(s) /\ s[i + 1] = "\"" THEN ReadIdent(s, i + 2, Append(acc, "\""))
  ELSE [ok |-> TRUE, name |-> acc, next |-> i + 1]

\* The identifiers of a list of quoted identifiers separated by ", " that
\* starts at s[i] and is followed by " FROM ".
RECURSIVE ReadIdentList(_, _, _)
ReadIdentList(s, i, acc) ==
  IF i > Len(s) \/ s[i] # "\"" THEN [ok |-> FALSE, names |-> acc]
  ELSE LET r == ReadIdent(s, i + 1, <<>>)
           n == r.next
       IN IF ~r.ok THEN [ok |-> FALSE, names |-> acc]
          ELSE IF n + 1 <= Len(s) /\ s[n] = "," /\ s[n + 1] = " "
          THEN ReadIdentList(s, n + 2, Append(acc, r.name))
          ELSE [ok |-> n + 5 <= Len(s) /\ SubSeq(s, n, n + 5) = <<" ", "F", "R", "O", "M", " ">>,
                names |-> Append(acc, r.name)]

\* The column ids the host can hand over, as the Go ints int(ids[i]) that init
\* stores: indices from 0, one past the columns, and -1 for a size_t with all
\* bits set.
HostIds == (0..MaxCols) \cup {-1}

RECURSIVE SeqsUpTo(_, _)
\* The sequences over S of length at most n.
SeqsUpTo(S, n) ==
  IF n = 0 THEN {<<>>}
  ELSE SeqsUpTo(S, n - 1) \cup
       {Append(w, x) : w \in {y \in SeqsUpTo(S, n - 1) : Len(y) = n - 1}, x \in S}

\* The handles bind can create and the column ids the host passes to init.
ProjInputs ==
  [ColumnNames : SeqsUpTo(Idents, MaxCols) \ {<<>>},
   SchemaName : {<<>>, <<"s">>},
   TableName : {<<"t">>, <<"t", "\"">>},
   columnIDs : SeqsUpTo(HostIds, MaxProj)]

NoProj ==
  /\ projIn = [ColumnNames |-> <<>>, SchemaName |-> <<>>, TableName |-> <<>>, columnIDs |-> <<>>]
  /\ projOut = <<>>

\* duckarrow_go_scan_init up to the call of Client.Query: records the
\* projection in the handle and builds the query it sends.
ScanInitQuery ==
  /\ projOut = <<>>
  /\ LET proj == projIn.columnIDs
     IN projOut' = [ProjectedColumns |-> proj,
                    query |-> ProjectedQuery(projIn.SchemaName, projIn.TableName,
                                             ColumnList(projIn.ColumnNames, proj))]
  /\ UNCHANGED <<projIn, extVars, poolVars, threadVars, scanVars, cfgVars, keyVars, valVars, rwVars>>

\* The columns of the record batches the server sends for the query of init,
\* by name: every column of the table in its order for a star, else the
\* columns the select list names, in the order of the list.  A list that does
\* not read as column names of the table makes the query fail.
BatchColumns(names, query) ==
  IF Len(query) >= 8 /\ query[8] = "*" THEN [ok |-> TRUE, cols |-> names]
  ELSE LET r == ReadIdentList(query, 8, <<>>)
       IN [ok |-> r.ok /\ \A i \in DOMAIN r.names : \E c \in DOMAIN names : names[c] = r.names[i],
           cols |-> r.names]

\* The loop of next over the columns of the current batch: output vector
\* colIdx is filled from batch column colIdx, for every column of the batch.
WrittenColumns(cols) == [colIdx \in 1..Len(cols) |-> cols[colIdx]]

\* duckarrow_go_scan_next emitting a chunk from a batch of the query init
\* sent: written lists, per output column, the bound column it was filled from.
ScanNextColumns ==
  /\ projOut # <<>>
  /\ "written" \notin DOMAIN projOut
  /\ LET b == BatchColumns(projIn.ColumnNames, projOut.query)
     IN /\ b.ok
        /\ projOut' = [ProjectedColumns |-> projOut.ProjectedColumns, query |-> projOut.query,
                       written |-> WrittenColumns(b.cols)]
  /\ UNCHANGED <<projIn, extVars, poolVars, threadVars, scanVars, cfgVars, keyVars, valVars, rwVars>>

(***************************************************************************)
(* Validation of table names and URIs.  Strings are sequences of           *)
(* characters; "NUL" stands for the zero byte.                             *)
(***************************************************************************)
\* The longest short table name, and the longest short remainder of a URI.
MaxNameLen == 2
MaxRestLen == 2

\* strings.Contains(s, p)
Contains(s, p) == \E i \in 1..(Len(s) - Len(p) + 1) : SubSeq(s, i, i + Len(p) - 1) = p

\* strings.HasPrefix(s, p)
HasPrefix(s, p) == Len(s) >= Len(p) /\ SubSeq(s, 1, Len(p)) = p

\* ValidateTableName with the length limit one too low.
ValidateTableNameShort(name) ==
  IF Len(name) = 0 THEN "table name cannot be empty"
  ELSE IF Len(name) >= 255 THEN "table name exceeds maximum length of 255 characters"
  ELSE IF \E p \in { <<";">>, <<"-", "-">>, <<"/", "*">>, <<"*", "/">>,
                      <<"NUL">>, <<"\n">>, <<"\r">>, <<"\t">> } : Contains(name, p)
  THEN "table name contains invalid characters"
  ELSE "nil"

\* validation.ValidateTableName
ValidateTableName(name) ==
  IF Len(name) = 0 THEN "table name cannot be empty"
  ELSE IF Len(name) > 255 THEN "table name exceeds maximum length of 255 characters"
  ELSE IF \E p \in { <<";">>, <<"-", "-">>, <<"/", "*">>, <<"*", "/">>,
                      <<"NUL">>, <<"\n">>, <<"\r">>, <<"\t">> } : Contains(name, p)
  THEN "table name contains invalid characters"
  ELSE "nil"

\* strings.TrimSpace(s)
TrimSpace(s) ==
  LET black(i) == s[i] \notin {" ", "\t", "\n", "\r"}
  IN IF \A i \in DOMAIN s : ~black(i) THEN <<>>
     ELSE SubSeq(s, CHOOSE i \in DOMAIN s : black(i) /\ \A j \in 1..(i - 1) : ~black(j),
                    CHOOSE i \in DOMAIN s : black(i) /\ \A j \in (i + 1)..Len(s) : ~black(j))

\* url.Parse("http://" + hostPart): the Host it yields, <<"!">> when it returns
\* an error.  The fragment is cut at the first #, the query at the first ?, the
\* authority ends at the first /, the user info at the last @; a port must be
\* digits only and a host must not hold a space.
URLHost(hostPart) ==
  LET cut(x, c) == IF \E i \in DOMAIN x : x[i] = c
                   THEN SubSeq(x, 1, (CHOOSE i \in DOMAIN x :
                                        x[i] = c /\ \A j \in 1..(i - 1) : x[j] # c) - 1)
                   ELSE x
      after(x, c) == IF \E i \in DOMAIN x : x[i] = c
                     THEN SubSeq(x, (CHOOSE i \in DOMAIN x :
                                       x[i] = c /\ \A j \in (i + 1)..Len(x) : x[j] # c) + 1, Len(x))
                     ELSE x
      authority == cut(cut(cut(hostPart, "#"), "?"), "/")
      host == after(authority, "@")
      userinfo == IF host = authority THEN <<>>
                  ELSE SubSeq(authority, 1, Len(authority) - Len(host) - 1)
      port == IF \E i \in DOMAIN host : host[i] = ":" THEN after(host, ":") ELSE <<>>
  IN IF \/ \E i \in DOMAIN port : port[i] \notin {"0", "1", "2", "3", "4", "5", "6", "7", "8", "9"}
        \/ \E i \in DOMAIN host : host[i] = " "
        \/ \E i \in DOMAIN userinfo : userinfo[i] = " "
     THEN <<"!">>
     ELSE host

\* ValidateURI with the length limit one too low.
ValidateURIShort(uri) ==
  LET u == TrimSpace(uri)
      tls == <<"g", "r", "p", "c", "+", "t", "l", "s", ":", "/", "/">>
      plain == <<"g", "r", "p", "c", ":", "/", "/">>
      hostPart == IF HasPrefix(u, tls) THEN SubSeq(u, Len(tls) + 1, Len(u))
                  ELSE SubSeq(u, Len(plain) + 1, Len(u))
  IN IF u = <<>> THEN "URI cannot be empty"
     ELSE IF Len(u) >= 2048 THEN "URI exceeds maximum length of 2048 characters"
     ELSE IF ~HasPrefix(u, tls) /\ ~HasPrefix(u, plain)
     THEN "URI must start with grpc:// or grpc+tls://"
     ELSE IF hostPart = <<>> THEN "URI must include a host"
     ELSE IF URLHost(hostPart) = <<"!">> THEN "invalid URI format"
     ELSE IF URLHost(hostPart) = <<>> THEN "URI must include a valid host"
     ELSE "nil"

\* validation.ValidateURI
ValidateURI(uri) ==
  LET u == TrimSpace(uri)
      tls == <<"g", "r", "p", "c", "+", "t", "l", "s", ":", "/", "/">>
      plain == <<"g", "r", "p", "c", ":", "/", "/">>
      hostPart == IF HasPrefix(u, tls) THEN SubSeq(u, Len(tls) + 1, Len(u))
                  ELSE SubSeq(u, Len(plain) + 1, Len(u))
  IN IF u = <<>> THEN "URI cannot be empty"
     ELSE IF Len(u) > 2048 THEN "URI exceeds maximum length of 2048 characters"
     ELSE IF ~HasPrefix(u, tls) /\ ~HasPrefix(u, plain)
     THEN "URI must start with grpc:// or grpc+tls://"
     ELSE IF hostPart = <<>> THEN "URI must include a host"
     ELSE IF URLHost(hostPart) = <<"!">> THEN "invalid URI format"
     ELSE IF URLHost(hostPart) = <<>> THEN "URI must include a valid host"
     ELSE "nil"

\* The table names tried: every short string over letters and the characters
\* of the dangerous patterns, and long names around the limit of 255.
TableNames ==
  SeqsUpTo({"a", ";", "-", "/", "*", "NUL", "\n", "\r", "\t"}, MaxNameLen)
    \cup {[i \in 1..n |-> "a"] : n \in {254, 255, 256}}
    \cup {[i \in 1..n |-> IF i = n THEN ";" ELSE "a"] : n \in {255, 256}}

\* The URIs tried: a scheme or none, then every short remainder; and URIs
\* around the limit of 2048, bare and wrapped in blanks.
URIs ==
  LET schemes == { <<>>, <<"g", "r", "p", "c", ":", "/", "/">>,
                   <<"g", "r", "p", "c", "+", "t", "l", "s", ":", "/", "/">>,
                   <<" ", "g", "r", "p", "c", ":", "/", "/">>,
                   <<"g", "r", "p", "c", ":", "/">>,
                   <<"h", "t", "t", "p", ":", "/", "/">> }
      long(n) == [i \in 1..n |-> IF i <= 7 THEN <<"g", "r", "p", "c", ":", "/", "/">>[i] ELSE "h"]
  IN {p \o r : p \in schemes, r \in SeqsUpTo({"h", "8", ":", "/", "@", " ", "?", "#"}, MaxRestLen)}
       \cup {long(n) : n \in {2047, 2048, 2049}}
       \cup {<<" ">> \o long(n) \o <<" ">> : n \in {2048, 2049}}

NoValid ==
  /\ valIn = [fn |-> "none", s |-> <<>>]
  /\ valOut = ""

\* A call of ValidateTableName and a call of ValidateURI.
ValidateTableNameCall ==
  /\ valIn.fn = "ValidateTableName" /\ valOut = ""
  /\ valOut' = ValidateTableName(valIn.s)
  /\ UNCHANGED <<valIn, extVars, poolVars, threadVars, scanVars, cfgVars, keyVars, projVars, rwVars>>

ValidateURICall ==
  /\ valIn.fn = "ValidateURI" /\ valOut = ""
  /\ valOut' = ValidateURI(valIn.s)
  /\ UNCHANGED <<valIn, extVars, poolVars, threadVars, scanVars, cfgVars, keyVars, projVars, rwVars>>

(***************************************************************************)
(* The replacement scan: an unknown table of the duckarrow schema is       *)
(* rewritten to a call of the table function.                              *)
(***************************************************************************)
\* validation.ShouldSkipTable: the name starts, in any letter case, with one
\* of the prefixes of host-internal tables.
ShouldSkipTable(name) ==
  LET upper == <<"A", "B", "C", "D", "E", "F", "G", "H", "I", "J", "K", "L", "M",
                 "N", "O", "P", "Q", "R", "S", "T", "U", "V", "W", "X", "Y", "Z">>
      lower == <<"a", "b", "c", "d", "e", "f", "g", "h", "i", "j", "k", "l", "m",
                 "n", "o", "p", "q", "r", "s", "t", "u", "v", "w", "x", "y", "z">>
      low == [i \in DOMAIN name |->
                IF \E j \in 1..26 : upper[j] = name[i]
                THEN lower[CHOOSE j \in 1..26 : upper[j] = name[i]] ELSE name[i]]
  IN \E p \in { <<"p", "g", "_">>, <<"s", "q", "l", "i", "t", "e", "_">>, <<"_", "_">>,
                 <<"i", "n", "f", "o", "r", "m", "a", "t", "i", "o", "n", "_",
                   "s", "c", "h", "e", "m", "a">>,
                 <<"m", "d", "c", "l", "i", "e", "n", "t", "c", "a", "c", "h", "e", "_">> } :
       HasPrefix(low, p)

\* duckarrow_replacement_scan_callback for the configured URI uri and the
\* table name name: nothing, an error, or the function name with its two
\* parameters.
ReplacementScan(uri, name) ==
  LET actualTable == IF Len(name) >= 2 /\ name[1] = "\"" /\ name[Len(name)] = "\""
                     THEN SubSeq(name, 2, Len(name) - 1) ELSE name
      none == [kind |-> "none", uri |-> <<>>, query |-> <<>>]
  IN IF uri = <<>> THEN none
     ELSE IF ShouldSkipTable(actualTable) THEN none
     ELSE IF ValidateTableName(actualTable) # "nil"
     THEN [kind |-> "error", uri |-> <<>>, query |-> <<>>]
     ELSE [kind |-> "duckarrow_query", uri |-> uri,
           query |-> <<"S", "E", "L", "E", "C", "T", " ", "*", " ", "F", "R", "O", "M", " ">>
                       \o QuoteIdent(actualTable)]

\* The calls tried: no URI or a valid one; every short name over a letter,
\* the quote and characters of dangerous patterns, and names with a prefix
\* of the skip list, bare and quoted.
RewriteCalls ==
  LET short == SeqsUpTo({"a", "\"", ";", "_", "-"}, MaxNameLen)
      prefixed == {p \o x : p \in {<<"p", "g", "_">>, <<"P", "g", "_">>, <<"_", "_">>},
                            x \in {<<"a">>, <<";">>}}
  IN [uri : {<<>>, <<"g", "r", "p", "c", ":", "/", "/", "h">>},
      name : short \cup prefixed \cup {<<"\"">> \o x \o <<"\"">> : x \in prefixed}]

NoRewrite ==
  /\ rwIn = [uri |-> <<>>, name |-> <<>>]
  /\ rwOut = <<>>

\* One call of the replacement scan callback.
ReplacementScanCall ==
  /\ rwOut = <<>>
  /\ rwOut' = ReplacementScan(rwIn.uri, rwIn.name)
  /\ UNCHANGED <<rwIn, extVars, poolVars, threadVars, scanVars, cfgVars, keyVars, projVars, valVars>>

(***************************************************************************)
(* The global configuration: duckarrow_configure, SetDuckArrowConfig and   *)
(* GetDuckArrowConfig.  The four fields are written and read one by one    *)
(* under the RWMutex.                                                      *)
(***************************************************************************)
\* &DuckArrowConfig{}
EmptyConfig == [uri |-> <<>>, username |-> <<>>, password |-> <<>>, skipVerify |-> FALSE]

\* The rows configure is called with: the URI null, empty, of a foreign
\* scheme or valid; two users.
ConfigureArgs ==
  [null : BOOLEAN,
   uri : { <<>>, <<"h", "t", "t", "p", ":", "/", "/", "h">>,
           <<"g", "r", "p", "c", ":", "/", "/", "h">>,
           <<"g", "r", "p", "c", "+", "t", "l", "s", ":", "/", "/", "h">> },
   username : {<<117>>, <<118>>},
   password : {<<112>>},
   skipVerify : {FALSE}]

\* The fields in the order Set assigns and Get reads them.
ConfigFields == <<"uri", "username", "password", "skipVerify">>

\* A thread that is in no call; arg is the row of the configure call in
\* progress, res the values Get has read so far, ret what the last call returned.
NoCall ==
  [pc |-> "idle", step |-> 0, res |-> EmptyConfig, ret |-> "",
   arg |-> [null |-> FALSE, uri |-> <<>>, username |-> <<>>, password |-> <<>>,
            skipVerify |-> FALSE]]

NoConfig ==
  /\ gcfg = EmptyConfig
  /\ lastSet = EmptyConfig
  /\ cmu = [w |-> NoThread, r |-> {}]
  /\ cth = [t \in Threads |-> NoCall]

\* A configure that does not look at the validity mask of the URI.
RejectsNullAccepted(a) == ValidateURI(a.uri) # "nil"

\* duckarrow_configure_callback for one row: a NULL URI gives NULL, a URI that
\* fails validateURI gives an error; neither reaches SetDuckArrowConfig.
Rejects(a) == a.null \/ ValidateURI(a.uri) # "nil"

ConfigureRejected(t, a) ==
  /\ cth[t].pc = "idle"
  /\ Rejects(a)
  /\ cth' = [cth EXCEPT ![t] = [NoCall EXCEPT !.ret = IF a.null THEN "null" ELSE "error"]]
  /\ UNCHANGED <<gcfg, cmu, lastSet, extVars, poolVars, threadVars, scanVars, keyVars, projVars,
                 valVars, rwVars>>

\* configure with an accepted URI calls SetDuckArrowConfig, which takes the
\* write lock: no writer and no reader holds the mutex.
SetLock(t, a) ==
  /\ cth[t].pc = "idle"
  /\ ~Rejects(a)
  /\ cmu.w = NoThread /\ cmu.r = {}
  /\ cmu' = [cmu EXCEPT !.w = t]
  /\ cth' = [cth EXCEPT ![t] = [NoCall EXCEPT !.pc = "set", !.arg = a]]
  /\ UNCHANGED <<gcfg, lastSet, extVars, poolVars, threadVars, scanVars, keyVars, projVars,
                 valVars, rwVars>>

\* duckArrowConfig.<field> = <argument>, one assignment.
SetWrite(t) ==
  /\ cth[t].pc = "set" /\ cth[t].step < 4
  /\ LET f == ConfigFields[cth[t].step + 1]
     IN gcfg' = [gcfg EXCEPT ![f] = cth[t].arg[f]]
  /\ cth' = [cth EXCEPT ![t].step = @ + 1]
  /\ UNCHANGED <<cmu, lastSet, extVars, poolVars, threadVars, scanVars, keyVars, projVars,
                 valVars, rwVars>>

\* The deferred Unlock; configure returns its confirmation.
SetUnlock(t) ==
  /\ cth[t].pc = "set" /\ cth[t].step = 4
  /\ cmu' = [cmu EXCEPT !.w = NoThread]
  /\ lastSet' = [f \in DOMAIN EmptyConfig |-> cth[t].arg[f]]
  /\ cth' = [cth EXCEPT ![t] = [NoCall EXCEPT !.ret = "ok"]]
  /\ UNCHANGED <<gcfg, extVars, poolVars, threadVars, scanVars, keyVars, projVars, valVars, rwVars>>

\* A read lock that is granted while a writer holds the mutex.
CanRLockAlways(m) == TRUE

\* RLock is granted when no writer holds the mutex.
CanRLock(m) == m.w = NoThread

\* GetDuckArrowConfig: RLock
GetRLock(t) ==
  /\ cth[t].pc = "idle"
  /\ CanRLock(cmu)
  /\ cmu' = [cmu EXCEPT !.r = @ \cup {t}]
  /\ cth' = [cth EXCEPT ![t] = [NoCall EXCEPT !.pc = "get"]]
  /\ UNCHANGED <<gcfg, lastSet, extVars, poolVars, threadVars, scanVars, keyVars, projVars,
                 valVars, rwVars>>

\* The return statement evaluates one field.
GetRead(t) ==
  /\ cth[t].pc = "get" /\ cth[t].step < 4
  /\ LET f == ConfigFields[cth[t].step + 1]
     IN cth' = [cth EXCEPT ![t].res = [@ EXCEPT ![f] = gcfg[f]], ![t].step = @ + 1]
  /\ UNCHANGED <<gcfg, cmu, lastSet, extVars, poolVars, threadVars, scanVars, keyVars, projVars,
                 valVars, rwVars>>

\* The deferred RUnlock; GetDuckArrowConfig returns the four values.
GetRUnlock(t) ==
  /\ cth[t].pc = "get" /\ cth[t].step = 4
  /\ cmu' = [cmu EXCEPT !.r = @ \ {t}]
  /\ cth' = [cth EXCEPT ![t] = [NoCall EXCEPT !.res = cth[t].res, !.ret = "got"]]
  /\ UNCHANGED <<gcfg, lastSet, extVars, poolVars, threadVars, scanVars, keyVars, projVars,
                 valVars, rwVars>>

\* No scan handle exists and no query has been run.
(***************************************************************************)
(* query_builder.go: buildProjectedQuery and extractTableName.             *)
(***************************************************************************)
\* The longest table name handed to buildProjectedQuery.
MaxTableLen == 2

\* buildProjectedQuery(tableName, columns)
buildProjectedQuery(tableName, columns) ==
  <<"S", "E", "L", "E", "C", "T", " ">>
    \o (IF Len(columns) = 0 THEN <<"*">>
        ELSE Join([i \in 1..Len(columns) |-> QuoteIdent(columns[i])], <<",", " ">>))
    \o <<" ", "F", "R", "O", "M", " ">> \o QuoteIdent(tableName)

\* \s of the regular expressions
IsSpace(c) == c \in {" ", "\t", "\n", "\r", "\f"}

\* (?i): a keyword matches at position i in either letter case.  Keywords are
\* given as pairs <<upper, lower>> per letter.
KeywordAt(q, i, kw) ==
  /\ i + Len(kw) - 1 <= Len(q)
  /\ \A j \in 1..Len(kw) : q[i + j - 1] \in {kw[j][1], kw[j][2]}

RECURSIVE SkipSpaces(_, _)
\* \s+ at position i: the position after the run of blanks, 0 when there is none.
SkipSpaces(q, i) ==
  IF i > Len(q) \/ ~IsSpace(q[i]) THEN 0
  ELSE IF i + 1 <= Len(q) /\ IsSpace(q[i + 1]) THEN SkipSpaces(q, i + 1)
  ELSE i + 1

\* SELECT\s+\*\s+FROM\s+ at position i: the position after it, 0 for no match.
SelectStarFromAt(q, i) ==
  LET sel == <<<<"S", "s">>, <<"E", "e">>, <<"L", "l">>, <<"E", "e">>, <<"C", "c">>, <<"T", "t">>>>
      frm == <<<<"F", "f">>, <<"R", "r">>, <<"O", "o">>, <<"M", "m">>>>
      p1 == IF KeywordAt(q, i, sel) THEN SkipSpaces(q, i + 6) ELSE 0
      p2 == IF p1 > 0 /\ p1 <= Len(q) /\ q[p1] = "*" THEN SkipSpaces(q, p1 + 1) ELSE 0
      p3 == IF p2 > 0 /\ KeywordAt(q, p2, frm) THEN SkipSpaces(q, p2 + 4) ELSE 0
  IN p3

RECURSIVE ClosingQuotes(_, _)
\* [^"]*(?:""[^"]*)*" from position i, just after the opening quote: the
\* positions at which the closing quote can stand.
ClosingQuotes(q, i) ==
  IF i > Len(q) THEN {}
  ELSE IF q[i] # "\"" THEN ClosingQuotes(q, i + 1)
  ELSE {i} \cup (IF i + 1 <= Len(q) /\ q[i + 1] = "\"" THEN ClosingQuotes(q, i + 2) ELSE {})

Max(S) == CHOOSE x \in S : \A y \in S : y <= x

\* The first regular expression at position i: the captured group, greedy, or
\* <<"!">> for no match.
QuotedMatchAt(q, i) ==
  LET p == SelectStarFromAt(q, i)
  IN IF p > 0 /\ p <= Len(q) /\ q[p] = "\"" /\ ClosingQuotes(q, p + 1) # {}
     THEN SubSeq(q, p + 1, Max(ClosingQuotes(q, p + 1)) - 1)
     ELSE <<"!">>

RECURSIVE NonSpaceEnd(_, _)
\* \S+ from position i: the last position of the run.
NonSpaceEnd(q, i) ==
  IF i + 1 <= Len(q) /\ ~IsSpace(q[i + 1]) THEN NonSpaceEnd(q, i + 1) ELSE i

\* The fallback regular expression at position i.
BareMatchAt(q, i) ==
  LET p == SelectStarFromAt(q, i)
  IN IF p > 0 /\ p <= Len(q) /\ ~IsSpace(q[p])
     THEN SubSeq(q, p, NonSpaceEnd(q, p))
     ELSE <<"!">>

RECURSIVE UnescapeQuotes(_)
\* strings.ReplaceAll(s, `""`, `"`): non-overlapping, from the left
UnescapeQuotes(s) ==
  IF Len(s) >= 2 /\ s[1] = "\"" /\ s[2] = "\"" THEN <<"\"">> \o UnescapeQuotes(SubSeq(s, 3, Len(s)))
  ELSE IF s = <<>> THEN <<>>
  ELSE <<Head(s)>> \o UnescapeQuotes(Tail(s))

\* extractTableName(query): FindStringSubmatch returns the leftmost match.
extractTableName(query) ==
  LET quoted == {i \in 1..Len(query) : QuotedMatchAt(query, i) # <<"!">>}
      bare == {i \in 1..Len(query) : BareMatchAt(query, i) # <<"!">>}
      First(S) == CHOOSE x \in S : \A y \in S : x <= y
  IN IF quoted # {} THEN UnescapeQuotes(QuotedMatchAt(query, First(quoted)))
     ELSE IF bare # {} THEN BareMatchAt(query, First(bare))
     ELSE <<>>

\* The table names and column lists of the calls.
BuilderCalls ==
  [table : SeqsUpTo({"a", "\"", " "}, MaxTableLen), columns : SeqsUpTo(Idents, MaxCols)]

NoBuilder ==
  /\ qbIn = [table |-> <<>>, columns |-> <<>>]
  /\ qbOut = <<>>

\* extractTableName(buildProjectedQuery(table, columns))
BuildAndExtract ==
  /\ qbOut = <<>>
  /\ LET q == buildProjectedQuery(qbIn.table, qbIn.columns)
     IN qbOut' = [query |-> q, name |-> extractTableName(q)]
  /\ UNCHANGED <<qbIn, dead, exVars, mdVars, catVars, heap, attVars, poolVars, threadVars, scanVars, keyVars, projVars, valVars,
                 rwVars, cfgVars>>

(***************************************************************************)
(* duckarrow_execute_callback on a chunk of one row.  The SQL text is a    *)
(* short head followed by pad further bytes that are not NUL.              *)
(***************************************************************************)
\* The longest head of an SQL text.
MaxSqlHead == 2

\* const maxSQLLength
maxSQLLength == 1024 * 1024

\* len(sql)
SqlLen(sql) == Len(sql.head) + sql.pad

\* for _, c := range sql { if c == 0 ... }
HasNul(sql) == \E i \in 1..Len(sql.head) : sql.head[i] = "NUL"

\* The validation of one row's SQL: the error it reports, "" for none.
SqlError(sql) ==
  IF SqlLen(sql) = 0 THEN "SQL statement cannot be empty"
  ELSE IF SqlLen(sql) > maxSQLLength THEN "SQL statement exceeds maximum length (1MB)"
  ELSE IF HasNul(sql) THEN "SQL statement contains invalid null byte"
  ELSE ""

\* The rows of the calls.
ExecuteRows ==
  [null : BOOLEAN,
   sql : [head : SeqsUpTo({"x", "NUL"}, MaxSqlHead),
          pad : {0, maxSQLLength - MaxSqlHead, maxSQLLength - 1, maxSQLLength}]]

\* What Client.Execute can return: an error, or the affected rows (-1: unknown).
ExecuteOutcomes == [err : {TRUE}, affected : {0}] \cup [err : {FALSE}, affected : {-1, 1}]

NoExecute ==
  /\ exIn = [null |-> FALSE, sql |-> [head |-> <<>>, pad |-> 0]]
  /\ exOut = <<>>

\* The outcome of the call: the error set ("" for none), whether the output
\* row is null, its value, and the number of Client.Execute, GetConnection
\* and connection give-back calls made.
ExecuteResult(e, n, v, x, g) ==
  [error |-> e, null |-> n, value |-> v, executes |-> x, gets |-> g, gives |-> g]

\* duckarrow_execute_callback; got tells whether GetConnection succeeded.
ExecuteCall(got) ==
  /\ exOut = <<>>
  /\ cmu.w = NoThread
  /\ IF gcfg.uri = <<>>
     THEN exOut' = ExecuteResult("not configured", FALSE, 0, 0, 0)
     ELSE IF ~got
     THEN exOut' = ExecuteResult("connection failed", FALSE, 0, 0, 0)
     ELSE IF exIn.null
     THEN exOut' = ExecuteResult("", TRUE, 0, 0, 1)
     ELSE IF SqlError(exIn.sql) # ""
     THEN exOut' = ExecuteResult(SqlError(exIn.sql), FALSE, 0, 0, 1)
     ELSE \E o \in ExecuteOutcomes :
            exOut' = IF o.err THEN ExecuteResult("remote server", FALSE, 0, 1, 1)
                     ELSE ExecuteResult("", FALSE, o.affected, 1, 1)
  /\ UNCHANGED <<exIn, dead, qbVars, mdVars, catVars, heap, attVars, poolVars, threadVars, scanVars, keyVars, projVars, valVars,
                 rwVars, cfgVars>>

(***************************************************************************)
(* Client.GetSchemas, GetTables and GetColumns: the structured metadata    *)
(* request (ADBC GetObjects) and the information_schema query.             *)
(***************************************************************************)
\* The most rows a metadata answer has.
MaxMetaRows == 2

\* The answers to GetObjects: an error of the request or of the reader, or
\* rows [name, isNull, xdbc] with xdbc the xdbc_nullable value of the row and
\* isNull telling that the value is null; hasNullable tells whether the
\* answer has the field.
ADBCAnswers ==
  [err : {"get objects", "read objects"}, hasNullable : {FALSE}, rows : {<<>>}]
  \cup [err : {""}, hasNullable : BOOLEAN,
        rows : SeqsUpTo([name : {"c"}, isNull : {FALSE}, xdbc : {0, 1, 2}]
                        \cup [name : {"c"}, isNull : {TRUE}, xdbc : {0}], MaxMetaRows)]

\* The answers to the information_schema query: an error of the query or of
\* the reader, or the entries read from it.
SQLAnswers ==
  [err : {"query", "read"}, result : {<<>>}]
  \cup [err : {""}, result : {<<>>, <<[Name |-> "c", Nullable |-> TRUE]>>}]

\* col.Nullable of getColumnsViaADBC: false unless the field is there, the
\* value is not null and equals 1.
NullableOf(has, isNull, x) == has /\ ~isNull /\ x = 1

\* getSchemasViaADBC, getTablesViaADBC, getColumnsViaADBC on an answer
ViaADBC(fn, a) ==
  IF a.err # "" THEN [err |-> a.err, result |-> <<>>]
  ELSE [err |-> "",
        result |-> [i \in 1..Len(a.rows) |->
                      IF fn = "GetColumns"
                      THEN [Name |-> a.rows[i].name,
                            Nullable |-> NullableOf(a.hasNullable, a.rows[i].isNull, a.rows[i].xdbc)]
                      ELSE [Name |-> a.rows[i].name]]]

\* getSchemasViaSQL, getTablesViaSQL, getColumnsViaSQL on an answer
ViaSQL(fn, a) ==
  IF a.err # "" THEN [err |-> a.err, result |-> <<>>]
  ELSE [err |-> "",
        result |-> [i \in 1..Len(a.result) |->
                      IF fn = "GetColumns" THEN a.result[i] ELSE [Name |-> a.result[i].Name]]]

MetadataCalls ==
  [fn : {"GetSchemas", "GetTables", "GetColumns"}, adbc : ADBCAnswers, sql : SQLAnswers]

NoMetadata ==
  /\ mdIn = [fn |-> "none", adbc |-> <<>>, sql |-> <<>>]
  /\ mdOut = <<>>

\* Client.GetSchemas / GetTables / GetColumns: the ADBC path, and on its
\* error the SQL path, whose result and error are returned as they are.
\* reports is the set of failures the returned error mentions.
MetadataCall ==
  /\ mdOut = <<>>
  /\ LET v == ViaADBC(mdIn.fn, mdIn.adbc)
         w == ViaSQL(mdIn.fn, mdIn.sql)
     IN mdOut' = IF v.err = ""
                 THEN [adbcCalls |-> 1, sqlCalls |-> 0, err |-> "", reports |-> {},
                       result |-> v.result]
                 ELSE [adbcCalls |-> 1, sqlCalls |-> 1, err |-> w.err,
                       reports |-> IF w.err = "" THEN {} ELSE {"sql"},
                       result |-> w.result]
  /\ UNCHANGED <<mdIn, dead, qbVars, exVars, catVars, heap, attVars, poolVars, threadVars, scanVars, keyVars, projVars,
                 valVars, rwVars, cfgVars>>

(***************************************************************************)
(* The attached catalog: DuckArrowCatalog and the DuckArrowSchemaEntry of  *)
(* schema "s", used by the host's threads.                                 *)
(***************************************************************************)
\* The table entries that can be materialized in one behaviour.
MaxEntries == 3

\* The schema names GetSchema is asked for and the table names looked up.
SchemaNames == {<<"s">>, <<"r">>}
TableLookups == {<<"t">>, <<"T">>, <<"u">>}

\* The key of duckdb::case_insensitive_map_t: the name in lower case.
ToLower(n) == [i \in DOMAIN n |-> IF n[i] = "T" THEN "t" ELSE n[i]]

\* The operations of the catalog and of a schema entry that write.
WriteOps ==
  {"CreateSchema", "DropSchema", "PlanCreateTableAs", "PlanInsert", "PlanDelete", "PlanUpdate",
   "BindCreateIndex", "CreateTable", "CreateView", "CreateIndex", "DropEntry", "Alter"}

\* What g_list_schemas_callback can return: an error or schema names.
SchemaLists == [error : {TRUE}, names : {<<>>}]
               \cup [error : {FALSE}, names : {<<>>, <<"s">>, <<"s", "r">>}]

NoLookup == [pc |-> "idle", name |-> <<>>, ret |-> 0, hit |-> FALSE, calls |-> 0, err |-> FALSE]

NoCatalog ==
  /\ scache = {}
  /\ tcache = <<>>
  /\ nent = 0
  /\ lk = [t \in Threads |-> NoLookup]
  /\ cop = [op |-> "none", error |-> "", listed |-> <<>>, handed |-> <<>>]

catFrame == <<dead, qbVars, exVars, mdVars, heap, attVars, poolVars, threadVars, scanVars, keyVars, projVars,
              valVars, rwVars, cfgVars>>

\* DuckArrowCatalog::GetSchema with a connection handle: the cached entry, or
\* a new entry that is cached.
GetSchema(n) ==
  /\ scache' = scache \cup {n}
  /\ cop' = [op |-> "GetSchema", error |-> "", listed |-> <<>>, handed |-> <<>>]
  /\ UNCHANGED <<tcache, nent, lk, catFrame>>

\* GetOrCreateEntry up to the end of its first locked block: a hit returns the
\* cached entry, a miss goes on to CreateFromFlightSQL without the lock.
LookupCheck(t, n) ==
  /\ lk[t].pc # "create"
  /\ <<"s">> \in scache
  /\ lk' = [lk EXCEPT ![t] =
              IF ToLower(n) \in DOMAIN tcache
              THEN [pc |-> "done", name |-> n, ret |-> tcache[ToLower(n)], hit |-> TRUE,
                    calls |-> 0, err |-> FALSE]
              ELSE [pc |-> "create", name |-> n, ret |-> 0, hit |-> FALSE, calls |-> 0,
                    err |-> FALSE]]
  /\ UNCHANGED <<scache, tcache, nent, cop, catFrame>>

\* table_cache[table_name] = std::move(table_entry)
Store(m, k, e) == [j \in DOMAIN m \cup {k} |-> IF j = k THEN e ELSE m[j]]

\* The rest of GetOrCreateEntry: CreateFromFlightSQL calls the get-columns
\* callback; an error throws, no columns give not-found, columns give a new
\* table entry, which is stored in the cache under the lock and returned.
LookupCreate(t) ==
  /\ lk[t].pc = "create"
  /\ \/ /\ lk' = [lk EXCEPT ![t] = [@ EXCEPT !.pc = "done", !.calls = 1, !.err = TRUE]]
        /\ UNCHANGED <<tcache, nent>>
     \/ /\ lk' = [lk EXCEPT ![t] = [@ EXCEPT !.pc = "done", !.calls = 1]]
        /\ UNCHANGED <<tcache, nent>>
     \/ /\ nent < MaxEntries
        /\ nent' = nent + 1
        /\ tcache' = Store(tcache, ToLower(lk[t].name), nent + 1)
        /\ lk' = [lk EXCEPT ![t] = [@ EXCEPT !.pc = "done", !.calls = 1, !.ret = nent + 1]]
  /\ UNCHANGED <<scache, cop, catFrame>>

\* A write operation that is carried out on the caches.
WriteOpApplied(w) ==
  /\ cop' = [op |-> w, error |-> "NotImplementedException", listed |-> <<>>, handed |-> <<>>]
  /\ tcache' = <<>>
  /\ UNCHANGED <<scache, nent, lk, catFrame>>

\* CreateSchema, DropSchema, Plan*, BindCreateIndex of the catalog and
\* Create*, DropEntry, Alter of the schema entry: each only throws.
WriteOp(w) ==
  /\ cop' = [op |-> w, error |-> "NotImplementedException", listed |-> <<>>, handed |-> <<>>]
  /\ UNCHANGED <<scache, tcache, nent, lk, catFrame>>

\* DuckArrowCatalog::ScanSchemas with a connection handle: fetches the list of
\* schemas, throws on its error, and frees the list; the callback parameter
\* is not used.
ScanSchemas(l) ==
  /\ cop' = [op |-> "ScanSchemas", error |-> IF l.error THEN "IOException" ELSE "",
             listed |-> l.names, handed |-> <<>>]
  /\ UNCHANGED <<scache, tcache, nent, lk, catFrame>>

(***************************************************************************)
(* The C strings that cross from the Go side to the host side.  Each host  *)
(* operation below is the call of the Go callback together with what the   *)
(* C++ caller does with the strings it got.                                *)
(***************************************************************************)
\* The C strings allocated in one behaviour.
MaxCStrings == 4

\* C.CString(...): a new string, not freed.
CString(kind) == [kind |-> kind, frees |-> 0, by |-> "none"]

\* g_free_callback(p), called by the C++ side: free(p).
HostFree(str) == [str EXCEPT !.frees = @ + 1, !.by = "host"]

\* The strings of a list of n entries: per entry the kinds given.
ListStrings(kinds, n) == [i \in 1..(n * Len(kinds)) |-> CString(kinds[((i - 1) % Len(kinds)) + 1])]

\* duckarrow_free_schema_list / _table_list / _column_list: every entry's
\* strings and the error message.
FreeList(strs) == [i \in DOMAIN strs |-> HostFree(strs[i])]

\* The string kinds of an entry of the three lists.
ListKinds ==
  [schemas |-> <<"schema_name">>, tables |-> <<"table_name", "table_type">>,
   columns |-> <<"column_name", "column_type">>]

strFrame == <<dead, qbVars, exVars, mdVars, catVars, attVars, poolVars, threadVars, scanVars, keyVars,
              projVars, valVars, rwVars, cfgVars>>

\* DuckArrowScanBind / GetScanFunction / Copy with a bind callback that
\* fails: the error message is copied and freed.
HostBindError ==
  /\ Len(heap) < MaxCStrings
  /\ heap' = Append(heap, HostFree(CString("error")))
  /\ UNCHANGED strFrame

\* DuckArrowScanBind with a bind callback that succeeds on n columns: the
\* get-column callback allocates a name and a type name per column, which
\* the loop copies into names and return_types.
HostBindColumns(n) ==
  /\ Len(heap) + 2 * n <= MaxCStrings
  /\ heap' = heap \o ListStrings(<<"name", "type_name">>, n)
  /\ UNCHANGED strFrame

\* DuckArrowScanFunction with an init callback that returns an error message.
HostInitError ==
  /\ Len(heap) < MaxCStrings
  /\ heap' = Append(heap, HostFree(CString("init error")))
  /\ UNCHANGED strFrame

\* ScanSchemas, Scan and CreateFromFlightSQL: the list callback returns an
\* error message or n entries; the caller frees the list once on each path.
HostList(which, failed, n) ==
  /\ LET strs == IF failed THEN <<CString("list error")>> ELSE ListStrings(ListKinds[which], n)
     IN /\ strs # <<>>
        /\ Len(heap) + Len(strs) <= MaxCStrings
        /\ heap' = heap \o FreeList(strs)
  /\ UNCHANGED strFrame

(***************************************************************************)
(* ATTACH and DETACH: DuckArrowAttach with duckarrow_go_connect, and the   *)
(* destructor of DuckArrowCatalog.                                         *)
(***************************************************************************)
\* The ATTACH statements of one behaviour.
MaxAttach == 2

\* Nothing is attached.
NoAttach ==
  /\ catalogs = <<>>
  /\ handles = <<>>
  /\ scanOf = 0

attFrame == <<dead, qbVars, exVars, mdVars, catVars, heap, threadVars, scanVars, keyVars, projVars,
              valVars, rwVars, cfgVars>>

\* duckarrow_go_connect after a successful flight.Connect: the ConnectionHandle
\* behind a new cgo handle.
NewHandle(h, id, c) ==
  Append(h, [Client |-> id, Username |-> c.Username, Password |-> c.Password,
             IsPooled |-> FALSE, deleted |-> FALSE])

\* DuckArrowAttach: the options are read from the ATTACH parameters, the connect
\* callback opens a connection with them, and the catalog is given the handle.
\* A failed connect throws and no catalog is created.
Attach(c, ok) ==
  /\ Len(catalogs) < MaxAttach
  /\ IF ok
     THEN /\ Len(cl) < MaxClients
          /\ cl' = NewClient(cl)
          /\ handles' = NewHandle(handles, Len(cl) + 1, c)
          /\ catalogs' = Append(catalogs,
                                [username |-> c.Username, password |-> c.Password,
                                 connection_handle |-> Len(handles) + 1,
                                 opened |-> Len(handles) + 1, attached |-> TRUE])
     ELSE UNCHANGED <<cl, handles, catalogs>>
  /\ op' = "Attach"
  /\ UNCHANGED <<mu, clients, now, scanOf, attFrame>>

\* DETACH destroys the catalog: ~DuckArrowCatalog sets connection_handle to
\* nullptr and calls nothing.
Detach(i) ==
  /\ i \in DOMAIN catalogs
  /\ catalogs[i].attached
  /\ scanOf = i => scan.state = "freed"
  /\ catalogs' = [catalogs EXCEPT ![i].attached = FALSE, ![i].connection_handle = 0]
  /\ op' = "Detach"
  /\ UNCHANGED <<mu, clients, now, cl, handles, scanOf, attFrame>>

\* No transport has failed; nothing else has been called.
NoExt ==
  /\ dead = {}
  /\ NoBuilder
  /\ NoExecute
  /\ NoMetadata
  /\ NoCatalog
  /\ heap = <<>>
  /\ NoAttach

NoScan ==
  /\ scan = [state |-> "none", Stmt |-> 0, Reader |-> 0, CurrentBatch |-> <<>>,
             BatchPosition |-> 0, Done |-> FALSE, inits |-> 0]
  /\ stmts = <<>>
  /\ readers = <<>>
  /\ refs = <<>>
  /\ emitted = [seq |-> 0, reader |-> 0, batch |-> 0, from |-> 0, n |-> 0]
  /\ last = [calls |-> 0, ret |-> 0, emit |-> FALSE, rows |-> 0, pre |-> 0, held |-> 0,
            adv |-> FALSE]

\* NewPool(): an empty map; no caller has a connection.
NewPool ==
  /\ mu = NoThread
  /\ op = "none"
  /\ clients = <<>>
  /\ now = 0
  /\ cl = <<>>
  /\ pc = [t \in Threads |-> "idle"]
  /\ cfg = [t \in Threads |-> CHOOSE c \in PoolConfigs : TRUE]
  /\ conn = [t \in Threads |-> NoConn]
  /\ via = [t \in Threads |-> "none"]

Init ==
  /\ NoScan
  /\ NoExt
  /\ NoKeys
  /\ NoProj
  /\ NoValid
  /\ NoRewrite
  /\ NoConfig
  /\ NewPool

Next ==
  \/ \E t \in Threads, c \in PoolConfigs : GetLock(t, c)
  \/ \E t \in Threads : GetConnected(t)
  \/ \E t \in Threads : GetConnectFailed(t)
  \/ \E t \in Threads : Free(t)
  \/ \E t \in Threads : Release(t)
  \/ \E t \in Threads : CloseUnmanaged(t)
  \/ PoolClose
  \/ Tick

Spec == Init /\ [][Next]_vars

\* The pool with scans that can fail on a dead transport.
NextTransport ==
  \/ Next
  \/ \E t \in Threads : TransportError(t)

TransportSpec == Init /\ [][NextTransport]_vars

\* The scheduling the code can rely on.  sync.Mutex hands the lock to every
\* waiter in the end, so a Release that can take the mutex again and again does
\* take it; a Close of an unmanaged client runs once it is due.  Nothing makes
\* flight.Connect return: it is called with context.Background().
Fairness ==
  \A t \in Threads : SF_vars(Release(t)) /\ WF_vars(CloseUnmanaged(t))

LiveSpec == Init /\ [][Next]_vars /\ Fairness

(***************************************************************************)
(* One scan from bind to free.  The pool is empty at the start, or another *)
(* holder already has the pooled client of one config in use.              *)
(***************************************************************************)
OtherThread == "t2"

\* The global configs of the scan's session: the credentials of PoolConfigs.
ScanConfigs ==
  {[uri |-> <<"g", "r", "p", "c", ":", "/", "/", "h">>, username |-> c.Username,
    password |-> c.Password, skipVerify |-> c.SkipVerify] : c \in PoolConfigs}

InitScan ==
  /\ NoScan
  /\ NoExt
  /\ NoKeys
  /\ NoProj
  /\ NoValid
  /\ NoRewrite
  /\ gcfg \in ScanConfigs
  /\ lastSet = gcfg
  /\ cmu = [w |-> NoThread, r |-> {}]
  /\ cth = [t \in Threads |-> NoCall]
  /\ mu = NoThread
  /\ op = "none"
  /\ now = 0
  /\ cfg = [t \in Threads |-> CHOOSE c \in PoolConfigs : TRUE]
  /\ via = [t \in Threads |-> "none"]
  /\ pc = [t \in Threads |-> "idle"]
  /\ \/ /\ clients = <<>>
        /\ cl = <<>>
        /\ conn = [t \in Threads |-> NoConn]
     \/ /\ cl = NewClient(<<>>)
        /\ clients = Install(<<>>, configKey(cfg[OtherThread]), 1)
        /\ conn = [t \in Threads |->
                     IF t = OtherThread THEN [Client |-> 1, IsPooled |-> TRUE] ELSE NoConn]

\* bind builds its config from the URI of the attached database and the
\* credentials GetDuckArrowConfig returns, and obtains its connection:
\* flight.GetConnection
ScanBindGet(t, c) ==
  /\ t = ScanThread
  /\ scan.state = "none"
  /\ cmu.w = NoThread
  /\ c.Username = gcfg.username /\ c.Password = gcfg.password
  /\ c.SkipVerify = gcfg.skipVerify
  /\ GetLock(t, c)

\* duckarrow_configure by another query while the scan handle exists:
\* SetDuckArrowConfig replaces the four values under the write lock, one step
\* for every reader.
Reconfigure(c) ==
  /\ scan.state = "bound"
  /\ cmu = [w |-> NoThread, r |-> {}]
  /\ c # gcfg
  /\ gcfg' = c
  /\ lastSet' = c
  /\ UNCHANGED <<cmu, cth, extVars, poolVars, threadVars, scanVars, keyVars, projVars, valVars, rwVars>>

NextScan ==
  \/ \E c \in PoolConfigs : ScanBindGet(ScanThread, c)
  \/ GetConnected(ScanThread)
  \/ GetConnectFailed(ScanThread)
  \/ ScanBindQuery(ScanThread)
  \/ ScanInit(ScanThread)
  \/ ScanNext(ScanThread)
  \/ ScanFree(ScanThread)
  \/ Release(ScanThread)
  \/ CloseUnmanaged(ScanThread)
  \/ \E c \in ScanConfigs : Reconfigure(c)

ScanSpec == InitScan /\ [][NextScan]_vars

(***************************************************************************)
(* configKey applied to two arbitrary configs.                             *)
(***************************************************************************)
NextKey == ComputeKeys

InitKey ==
  /\ keyIn \in KeyConfigs \X KeyConfigs
  /\ keyOut = <<>>
  /\ NoScan
  /\ NoExt
  /\ NoProj
  /\ NoValid
  /\ NoRewrite
  /\ NoConfig
  /\ NewPool

KeySpec == InitKey /\ [][NextKey]_vars

(***************************************************************************)
(* init applied to an arbitrary handle and projection.                     *)
(***************************************************************************)
NextProj == ScanInitQuery

InitProj ==
  /\ projIn \in ProjInputs
  /\ projOut = <<>>
  /\ NoScan
  /\ NoExt
  /\ NoKeys
  /\ NoValid
  /\ NoRewrite
  /\ NoConfig
  /\ NewPool

ProjSpec == InitProj /\ [][NextProj]_vars

\* init followed by a next that emits a chunk.
NextChunk ==
  \/ ScanInitQuery
  \/ ScanNextColumns

ChunkSpec == InitProj /\ [][NextChunk]_vars

(***************************************************************************)
(* The validation functions applied to arbitrary strings.                  *)
(***************************************************************************)
NextValid == ValidateTableNameCall \/ ValidateURICall

InitValid ==
  /\ valIn \in [fn : {"ValidateTableName"}, s : TableNames] \cup [fn : {"ValidateURI"}, s : URIs]
  /\ valOut = ""
  /\ NoScan
  /\ NoExt
  /\ NoKeys
  /\ NoProj
  /\ NoRewrite
  /\ NoConfig
  /\ NewPool

ValidSpec == InitValid /\ [][NextValid]_vars

(***************************************************************************)
(* The replacement scan applied to an arbitrary table name.                *)
(***************************************************************************)
InitRewrite ==
  /\ rwIn \in RewriteCalls
  /\ rwOut = <<>>
  /\ NoScan
  /\ NoExt
  /\ NoKeys
  /\ NoProj
  /\ NoValid
  /\ NoConfig
  /\ NewPool

RewriteSpec == InitRewrite /\ [][ReplacementScanCall]_vars

(***************************************************************************)
(* The query builder applied to arbitrary names.                           *)
(***************************************************************************)
InitBuilder ==
  /\ qbIn \in BuilderCalls
  /\ qbOut = <<>>
  /\ dead = {}
  /\ heap = <<>>
  /\ NoAttach
  /\ NoCatalog
  /\ NoMetadata
  /\ NoExecute
  /\ NoScan
  /\ NoKeys
  /\ NoProj
  /\ NoValid
  /\ NoRewrite
  /\ NoConfig
  /\ NewPool

BuilderSpec == InitBuilder /\ [][BuildAndExtract]_vars

(***************************************************************************)
(* duckarrow_execute on an arbitrary row, before and after configure.      *)
(***************************************************************************)
InitExecute ==
  /\ exIn \in ExecuteRows
  /\ exOut = <<>>
  /\ gcfg \in {EmptyConfig} \cup ScanConfigs
  /\ lastSet = gcfg
  /\ cmu = [w |-> NoThread, r |-> {}]
  /\ cth = [t \in Threads |-> NoCall]
  /\ dead = {}
  /\ heap = <<>>
  /\ NoAttach
  /\ NoCatalog
  /\ NoMetadata
  /\ NoBuilder
  /\ NoScan
  /\ NoKeys
  /\ NoProj
  /\ NoValid
  /\ NoRewrite
  /\ NewPool

ExecuteSpec == InitExecute /\ [][\E got \in BOOLEAN : ExecuteCall(got)]_vars

(***************************************************************************)
(* The metadata calls on arbitrary answers of the server.                  *)
(***************************************************************************)
InitMetadata ==
  /\ mdIn \in MetadataCalls
  /\ mdOut = <<>>
  /\ dead = {}
  /\ heap = <<>>
  /\ NoAttach
  /\ NoCatalog
  /\ NoBuilder
  /\ NoExecute
  /\ NoScan
  /\ NoKeys
  /\ NoProj
  /\ NoValid
  /\ NoRewrite
  /\ NoConfig
  /\ NewPool

MetadataSpec == InitMetadata /\ [][MetadataCall]_vars

(***************************************************************************)
(* The host's threads using the attached catalog.                          *)
(***************************************************************************)
NextCatalog ==
  \/ \E n \in SchemaNames : GetSchema(n)
  \/ \E t \in Threads, n \in TableLookups : LookupCheck(t, n)
  \/ \E t \in Threads : LookupCreate(t)
  \/ \E w \in WriteOps : WriteOp(w)
  \/ \E l \in SchemaLists : ScanSchemas(l)

CatalogSpec == Init /\ [][NextCatalog]_vars

(***************************************************************************)
(* The host operations that receive C strings.                             *)
(***************************************************************************)
NextStrings ==
  \/ HostBindError
  \/ \E n \in 1..MaxCols : HostBindColumns(n)
  \/ HostInitError
  \/ \E which \in DOMAIN ListKinds, failed \in BOOLEAN, n \in 0..MaxCols :
       HostList(which, failed, n)

StringSpec == Init /\ [][NextStrings]_vars

(***************************************************************************)
(* Two threads calling configure and GetDuckArrowConfig.                   *)
(***************************************************************************)
NextConfig ==
  \/ \E t \in Threads, a \in ConfigureArgs : ConfigureRejected(t, a)
  \/ \E t \in Threads, a \in ConfigureArgs : SetLock(t, a)
  \/ \E t \in Threads : SetWrite(t)
  \/ \E t \in Threads : SetUnlock(t)
  \/ \E t \in Threads : GetRLock(t)
  \/ \E t \in Threads : GetRead(t)
  \/ \E t \in Threads : GetRUnlock(t)

ConfigSpec == Init /\ [][NextConfig]_vars

(***************************************************************************)
(* The callers of the pool side by side: one scan from bind to free on the *)
(* scan thread, and duckarrow_execute calls on the other thread.           *)
(***************************************************************************)
\* duckarrow_execute_callback up to GetConnection: the config is built from
\* the values GetDuckArrowConfig returns.
ExecuteGet(t, c) ==
  /\ t = OtherThread
  /\ cmu.w = NoThread
  /\ gcfg.uri # <<>>
  /\ c.Username = gcfg.username /\ c.Password = gcfg.password
  /\ c.SkipVerify = gcfg.skipVerify
  /\ GetLock(t, c)

InitCallers ==
  /\ NoScan
  /\ NoExt
  /\ NoKeys
  /\ NoProj
  /\ NoValid
  /\ NoRewrite
  /\ gcfg \in ScanConfigs
  /\ lastSet = gcfg
  /\ cmu = [w |-> NoThread, r |-> {}]
  /\ cth = [t \in Threads |-> NoCall]
  /\ NewPool

\* The row loop of execute ends in the deferred function on every return:
\* Free(OtherThread).
NextCallers ==
  \/ \E c \in PoolConfigs : ScanBindGet(ScanThread, c)
  \/ \E c \in PoolConfigs : ExecuteGet(OtherThread, c)
  \/ \E t \in Threads : GetConnected(t)
  \/ \E t \in Threads : GetConnectFailed(t)
  \/ ScanBindQuery(ScanThread)
  \/ ScanInit(ScanThread)
  \/ ScanFree(ScanThread)
  \/ Free(OtherThread)
  \/ \E t \in Threads : Release(t)
  \/ \E t \in Threads : CloseUnmanaged(t)

CallerSpec == InitCallers /\ [][NextCallers]_vars

(***************************************************************************)
(* Attached databases: ATTACH, DETACH, configure, and one scan of a table  *)
(* of an attached catalog.  The pool is used by this scan alone, so its    *)
(* connection is always a pooled one.                                      *)
(***************************************************************************)
\* DuckArrowTableEntry::GetScanFunction up to the bind callback: the table
\* entry belongs to catalog i, whose URI is passed on.
GetScanFunction(i) ==
  /\ i \in DOMAIN catalogs
  /\ catalogs[i].attached
  /\ scanOf = 0
  /\ scanOf' = i
  /\ UNCHANGED <<catalogs, handles, poolVars, attFrame>>

\* The bind callback GetScanFunction calls: duckarrow_go_scan_table_bind is
\* given the URI, the schema and the table name.
AttachedScanBind(c) ==
  /\ scanOf # 0
  /\ ScanBindGet(ScanThread, c)

\* duckarrow_configure with an accepted row, before the scan is bound.
AttachConfigure(c) ==
  /\ scan.state = "none"
  /\ pc[ScanThread] = "idle"
  /\ cmu = [w |-> NoThread, r |-> {}]
  /\ c # gcfg
  /\ gcfg' = c
  /\ lastSet' = c
  /\ UNCHANGED <<cmu, cth, extVars, poolVars, threadVars, scanVars, keyVars, projVars, valVars, rwVars>>

InitAttach ==
  /\ NoScan
  /\ NoExt
  /\ NoKeys
  /\ NoProj
  /\ NoValid
  /\ NoRewrite
  /\ gcfg \in ScanConfigs
  /\ lastSet = gcfg
  /\ cmu = [w |-> NoThread, r |-> {}]
  /\ cth = [t \in Threads |-> NoCall]
  /\ NewPool

NextAttach ==
  \/ \E c \in PoolConfigs, ok \in BOOLEAN : Attach(c, ok)
  \/ \E i \in 1..MaxAttach : Detach(i)
  \/ \E c \in ScanConfigs : AttachConfigure(c)
  \/ \E i \in 1..MaxAttach : GetScanFunction(i)
  \/ \E c \in PoolConfigs : AttachedScanBind(c)
  \/ GetConnected(ScanThread)
  \/ GetConnectFailed(ScanThread)
  \/ ScanBindQuery(ScanThread)
  \/ ScanFree(ScanThread)
  \/ Release(ScanThread)

AttachSpec == InitAttach /\ [][NextAttach]_vars

(***************************************************************************)
(* Properties.                                                             *)
(***************************************************************************)

\* C1: a client that Get handed out as pooled is not handed out by another Get
\* while its holder has not released it, and the pool entry of a held pooled
\* client stays marked in use.
C1_PooledClientExclusive ==
  /\ \A t, u \in Threads :
       (t # u /\ conn[t].IsPooled /\ conn[u].IsPooled) => conn[t].Client # conn[u].Client
  /\ \A t \in Threads : \A k \in DOMAIN clients :
       (conn[t].IsPooled /\ clients[k].client = conn[t].Client) => clients[k].inUse

\* C2: after free, every batch the scan retained has been released as often as
\* it was retained, and every statement and every reader the scan opened has
\* been closed or released.
C2_FreeReleasesAll ==
  scan.state = "freed" =>
    /\ \A b \in DOMAIN refs : refs[b].ret = refs[b].rel
    /\ \A i \in DOMAIN stmts : stmts[i].closed >= 1
    /\ \A i \in DOMAIN readers : readers[i].released >= 1

\* C3: with an injective hash, equal keys imply equal configs, field by field.
C3_KeyInjective ==
  (keyOut # <<>> /\ keyOut[1] = keyOut[2]) =>
    /\ keyIn[1].URI = keyIn[2].URI
    /\ keyIn[1].Username = keyIn[2].Username
    /\ keyIn[1].Password = keyIn[2].Password
    /\ keyIn[1].SkipVerify = keyIn[2].SkipVerify

\* C4: Get for a key whose entry is in use goes on to connect at once and
\* returns the new client as non-pooled (or the connect error); the pool map
\* with the entry's in-use flag and last-used time stays as it was.
C4_BusyEntryUnmanaged ==
  [][\A t \in Threads :
       LET k == configKey(cfg'[t])
           busy == k \in DOMAIN clients /\ clients[k].inUse
       IN /\ (pc[t] = "idle" /\ pc'[t] # "idle" /\ busy) =>
               (pc'[t] = "connecting" /\ clients' = clients /\ cl' = cl)
          /\ (pc[t] = "connecting" /\ pc'[t] # "connecting" /\ busy) =>
               /\ clients' = clients
               /\ pc'[t] = "holding" =>
                    /\ conn'[t] = [Client |-> Len(cl) + 1, IsPooled |-> FALSE]
                    /\ cl' = Append(cl, [db |-> TRUE, conn |-> TRUE, closes |-> 0])
  ]_vars

\* A caller holds an unmanaged client while another caller holds the pooled
\* client of the same key, marked in use.
C4_Witness ==
  \E t, u \in Threads :
    LET k == configKey(cfg[t]) IN
    /\ t # u
    /\ pc[t] = "holding" /\ conn[t].Client # 0 /\ ~conn[t].IsPooled
    /\ conn[u].IsPooled /\ configKey(cfg[u]) = k
    /\ k \in DOMAIN clients /\ clients[k].inUse /\ clients[k].client = conn[u].Client

\* C5: Get for a key whose entry is present and not in use returns the entry's
\* client as pooled, opening no connection, exactly when the client is healthy
\* and now - lastUsed < maxIdle; otherwise it closes that client once and removes
\* the entry, and the connect that follows installs the new client marked in use.
C5_IdleEntryReuseOrReplace ==
  [][\A t \in Threads :
       LET k == configKey(cfg'[t]) IN
       /\ (pc[t] = "idle" /\ pc'[t] # "idle" /\ k \in DOMAIN clients /\ ~clients[k].inUse) =>
            LET e == clients[k] IN
            IF cl[e.client].conn /\ cl[e.client].db /\ now - e.lastUsed < maxIdle
            THEN /\ pc'[t] = "holding"
                 /\ conn'[t] = [Client |-> e.client, IsPooled |-> TRUE]
                 /\ cl' = cl
                 /\ clients' = [clients EXCEPT
                                  ![k] = [client |-> e.client, lastUsed |-> now, inUse |-> TRUE]]
            ELSE /\ pc'[t] = "connecting"
                 /\ cl' = [cl EXCEPT ![e.client].closes = 1]
                 /\ k \notin DOMAIN clients'
       /\ (pc[t] = "connecting" /\ pc'[t] = "holding" /\ k \notin DOMAIN clients) =>
            /\ cl' = Append(cl, [db |-> TRUE, conn |-> TRUE, closes |-> 0])
            /\ k \in DOMAIN clients'
            /\ clients'[k] = [client |-> Len(cl) + 1, lastUsed |-> now, inUse |-> TRUE]
            /\ conn'[t] = [Client |-> Len(cl) + 1, IsPooled |-> TRUE]
  ]_vars

\* One caller holds a client Get reused from an idle entry while another holds
\* the client that replaced a stale entry, which was closed once.
C5_Witness ==
  \E t, u \in Threads :
    /\ pc[t] = "holding" /\ via[t] = "reuse" /\ conn[t].IsPooled
    /\ pc[u] = "holding" /\ via[u] = "replace" /\ conn[u].IsPooled
    /\ \E id \in DOMAIN cl : cl[id].closes = 1

\* C6: when Pool.Close returns the map is empty and every client that was in
\* the map has been closed exactly once; a Close on an empty pool changes
\* nothing; no client is ever closed a second time.
C6_CloseEmptiesPool ==
  [][/\ PoolClose =>
          /\ clients' = <<>>
          /\ DOMAIN cl' = DOMAIN cl
          /\ \A id \in DOMAIN cl :
               cl'[id].closes = IF \E k \in DOMAIN clients : clients[k].client = id
                                THEN 1 ELSE cl[id].closes
          /\ clients = <<>> => (cl' = cl /\ clients' = clients)
     /\ \A id \in DOMAIN cl' : cl'[id].closes <= 1
  ]_vars

\* Pool.Close has returned while a caller held a pooled client: the map is
\* empty and that client is closed.
C6_Witness ==
  /\ op = "Close"
  /\ clients = <<>>
  /\ \E t \in Threads : conn[t].IsPooled /\ cl[conn[t].Client].closes = 1

\* C7: a free that has been called returns, whatever the other threads do.
C7_FreeReturns ==
  \A t \in Threads : (pc[t] = "freeing") ~> (pc[t] = "idle")

\* C8: the scan holds at most one record batch at every point, also at the
\* moment next advances the reader (the previous batch is released before), and
\* no batch is released more often than it was retained.
C8_AtMostOneBatch ==
  /\ Cardinality({b \in DOMAIN refs : refs[b].ret > refs[b].rel}) <= 1
  /\ last.held = 0
  /\ \A b \in DOMAIN refs : refs[b].rel <= refs[b].ret

\* next has released one batch and holds the one the reader delivered after it.
C8_Witness ==
  /\ scan.state = "bound"
  /\ \E a, b \in DOMAIN refs :
       /\ a # b
       /\ refs[a] = [ret |-> 1, rel |-> 1]
       /\ refs[b] = [ret |-> 1, rel |-> 0]

\* C9: a next call that emits r rows from a batch of batchRows rows at cursor c
\* has 0 <= r <= 2048 and r <= batchRows - c; the cursor becomes c + r and never
\* exceeds batchRows.
C9_ChunkBounds ==
  /\ last.emit =>
       /\ 0 <= last.ret /\ last.ret <= 2048
       /\ last.ret <= last.rows - last.pre
       /\ scan.BatchPosition = last.pre + last.ret
       /\ scan.CurrentBatch # Nil /\ scan.CurrentBatch.rows = last.rows
  /\ scan.CurrentBatch # Nil => scan.BatchPosition <= scan.CurrentBatch.rows

\* next emitted a full chunk of a batch that has more rows than one chunk.
C9_Witness ==
  /\ last.emit /\ last.ret = 2048 /\ last.rows = 2049 /\ last.pre = 0
  /\ scan.BatchPosition = 2048

\* C10: every chunk next emits lies after the chunk emitted before it: a later
\* batch of the reader, or the same batch at a position past the rows already
\* emitted; so rows come in reader order and none is emitted twice.
C10_RowsInReaderOrder ==
  [][emitted' # emitted =>
       \/ emitted.reader = 0
       \/ emitted.reader < emitted'.reader
       \/ emitted.reader = emitted'.reader /\ emitted.batch < emitted'.batch
       \/ /\ emitted.reader = emitted'.reader /\ emitted.batch = emitted'.batch
          /\ emitted.from + emitted.n <= emitted'.from
          /\ emitted.n > 0
  ]_vars

\* next emitted the second chunk of the reader's second batch.
C10_Witness ==
  /\ emitted.reader # 0 /\ emitted.batch = 2 /\ emitted.from = 2048 /\ emitted.n = 1

\* C11: when the first advance of the scan's reader reports the end of the
\* stream without error, next sets Done and returns 0; a next on a scan that
\* is Done returns 0, does not call Reader.Next() and leaves the batch, the
\* reference counts and the handle as they are.
C11_DoneIsFinal ==
  [][ScanNext(ScanThread) =>
       /\ scan.Done =>
            /\ last'.ret = 0 /\ ~last'.adv /\ ~last'.emit
            /\ readers' = readers /\ refs' = refs /\ scan' = scan /\ emitted' = emitted
       /\ (/\ ~scan.Done /\ scan.Reader # 0
           /\ readers[scan.Reader] = [n |-> 0, err |-> FALSE, eos |-> FALSE, released |-> 0]
           /\ readers'[scan.Reader].eos /\ ~readers'[scan.Reader].err) =>
            /\ scan'.Done
            /\ last'.ret = 0 /\ last'.adv /\ ~last'.emit
            /\ readers'[scan.Reader].n = 0
  ]_vars

\* The reader ended at its first advance, and a next after that returned 0
\* without calling the reader.
C11_Witness ==
  /\ scan.state = "bound" /\ scan.Done /\ scan.Reader # 0
  /\ readers[scan.Reader].n = 0 /\ readers[scan.Reader].eos
  /\ scan.CurrentBatch = Nil
  /\ last.calls = 1 /\ last.ret = 0 /\ ~last.adv

C13_StarForEmptyOrFull ==
  (/\ projOut # <<>>
   /\ \/ projIn.columnIDs = <<>>
      \/ projIn.columnIDs = [i \in 1..Len(projIn.ColumnNames) |-> i - 1])
  => SubSeq(projOut.query, 1, 14) =
       <<"S", "E", "L", "E", "C", "T", " ", "*", " ", "F", "R", "O", "M", " ">>

\* init has sent SELECT * for an empty projection.
C13_Witness ==
  /\ projOut # <<>>
  /\ projIn.columnIDs = <<>>
  /\ Len(projIn.ColumnNames) = 2
  /\ projOut.query[8] = "*"

\* C14: after init every index of the recorded projection is at least 0 and
\* below the number of columns captured at bind.
C14_ProjectionWithinColumns ==
  projOut # <<>> =>
    \A i \in DOMAIN projOut.ProjectedColumns :
      /\ 0 <= projOut.ProjectedColumns[i]
      /\ projOut.ProjectedColumns[i] < Len(projIn.ColumnNames)

\* C19: ValidateTableName accepts a name exactly when its length is from 1
\* to 255 and it holds none of ; -- /* */ NUL CR LF TAB.
C19_TableNameRule ==
  (valIn.fn = "ValidateTableName" /\ valOut # "") =>
    LET n == valIn.s IN
    (valOut = "nil") <=>
      /\ 1 <= Len(n) /\ Len(n) <= 255
      /\ \A i \in DOMAIN n : n[i] \notin {";", "NUL", "\r", "\n", "\t"}
      /\ \A i \in 1..(Len(n) - 1) :
           <<n[i], n[i + 1]>> \notin {<<"-", "-">>, <<"/", "*">>, <<"*", "/">>}

\* ValidateTableName has accepted a name of 255 characters.
C19_Witness ==
  /\ valIn.fn = "ValidateTableName" /\ Len(valIn.s) = 255 /\ valOut = "nil"

\* C20: ValidateURI accepts a URI exactly when, with surrounding whitespace
\* trimmed, it is non-empty, at most 2048 long, starts with grpc:// or
\* grpc+tls://, and what follows the scheme has a non-empty host.
C20_URIRule ==
  (valIn.fn = "ValidateURI" /\ valOut # "") =>
    LET u == TrimSpace(valIn.s)
        rest(k) == SubSeq(u, k + 1, Len(u))
        hasHost(r) == URLHost(r) # <<>> /\ URLHost(r) # <<"!">>
    IN (valOut = "nil") <=>
         /\ 1 <= Len(u) /\ Len(u) <= 2048
         /\ \/ /\ Len(u) > 7
               /\ SubSeq(u, 1, 7) = <<"g", "r", "p", "c", ":", "/", "/">>
               /\ hasHost(rest(7))
            \/ /\ Len(u) > 11
               /\ SubSeq(u, 1, 11) = <<"g", "r", "p", "c", "+", "t", "l", "s", ":", "/", "/">>
               /\ hasHost(rest(11))

\* ValidateURI has accepted a URI that is 2048 characters long once the
\* blanks around it are trimmed.
C20_Witness ==
  /\ valIn.fn = "ValidateURI" /\ Len(valIn.s) = 2050 /\ valOut = "nil"

\* C18: the rewriter names the table function only when a URI is configured
\* and the table name, one pair of surrounding quotes stripped, passes
\* ValidateTableName; with no URI it leaves neither a function nor an error;
\* for a name that fails the validation it sets an error and no function.
C18_RewriteOnlyValid ==
  rwOut # <<>> =>
    LET n == rwIn.name
        stripped == IF Len(n) >= 2 /\ n[1] = "\"" /\ n[Len(n)] = "\""
                    THEN SubSeq(n, 2, Len(n) - 1) ELSE n
        valid == ValidateTableName(stripped) = "nil"
    IN /\ rwOut.kind = "duckarrow_query" => (rwIn.uri # <<>> /\ valid)
       /\ rwIn.uri = <<>> => rwOut.kind = "none"
       /\ (rwIn.uri # <<>> /\ ~valid) => rwOut.kind = "error"

\* C15: every GetDuckArrowConfig returns the four values of the
\* SetDuckArrowConfig call that returned last before it (the empty config if
\* there was none): never a mixture of two calls.
C15_GetReturnsOneSet ==
  [][\A t \in Threads :
       (cth[t].pc = "get" /\ cth'[t].pc = "idle") =>
         /\ cth'[t].ret = "got"
         /\ cth'[t].res = lastSet
  ]_vars

\* A Get returned the values of a Set that replaced those of an earlier Set,
\* and the other thread is inside the next Set.
C15_Witness ==
  \E t, u \in Threads :
    /\ cth[t].ret = "got" /\ cth[t].res = lastSet
    /\ lastSet.username = <<118>>
    /\ cth[u].pc = "set" /\ cth[u].step = 2 /\ cth[u].arg.username = <<117>>
    /\ gcfg # lastSet

\* C17: the global config changes only inside a configure call whose URI is
\* not null and passes the validation, and that call leaves its four values;
\* a call whose URI is null or fails the validation returns with the config
\* as it was.
C17_ConfigureValidates ==
  [][/\ gcfg' # gcfg =>
          \E t \in Threads :
            /\ cth[t].pc = "set" /\ cth'[t].step = cth[t].step + 1
            /\ ~cth[t].arg.null
            /\ cth[t].arg.uri \in { <<"g", "r", "p", "c", ":", "/", "/", "h">>,
                                    <<"g", "r", "p", "c", "+", "t", "l", "s", ":", "/", "/", "h">> }
     /\ \A t \in Threads :
          /\ (cth[t].pc = "set" /\ cth'[t].pc = "idle") =>
               /\ gcfg = [f \in DOMAIN EmptyConfig |-> cth[t].arg[f]]
               /\ gcfg' = gcfg /\ cth'[t].ret = "ok"
          /\ (cth'[t] # cth[t] /\ cth'[t].ret \in {"null", "error"}) => gcfg' = gcfg
  ]_vars

\* A configure call was rejected after an earlier one had set the config.
C17_Witness ==
  \E t \in Threads :
    /\ cth[t].ret = "error"
    /\ gcfg = lastSet /\ gcfg.uri # <<>>
    /\ cmu.w = NoThread

\* C16: a configure call changes nothing of a scan: not the config it
\* captured at bind, not its connection, not its handle; bind captures the
\* credentials of the global config of that moment; and the Release of free
\* clears the in-use flag of the entry under the key of the captured config,
\* the entry of the client the scan held, and of no other.
C16_ScanKeepsBoundConfig ==
  [][/\ gcfg' # gcfg => (cfg' = cfg /\ conn' = conn /\ scan' = scan /\ clients' = clients)
     /\ (pc[ScanThread] = "idle" /\ pc'[ScanThread] # "idle") =>
          /\ cfg'[ScanThread].Username = gcfg.username
          /\ cfg'[ScanThread].Password = gcfg.password
          /\ cfg'[ScanThread].SkipVerify = gcfg.skipVerify
     /\ (pc[ScanThread] = "freeing" /\ pc'[ScanThread] = "idle" /\ conn[ScanThread].IsPooled) =>
          \A k \in DOMAIN clients :
            /\ k \in DOMAIN clients'
            /\ clients'[k].client = clients[k].client
            /\ clients'[k].inUse =
                 (clients[k].inUse /\ clients[k].client # conn[ScanThread].Client)
            /\ clients[k].client = conn[ScanThread].Client => k = configKey(cfg[ScanThread])
  ]_vars

\* The scan was freed and its pooled client released after a configure call
\* had changed the credentials of the global config.
C16_Witness ==
  /\ scan.state = "freed" /\ pc[ScanThread] = "idle" /\ op = "Release"
  /\ cfg[ScanThread].Username # gcfg.username
  /\ configKey(cfg[ScanThread]) \in DOMAIN clients
  /\ ~clients[configKey(cfg[ScanThread])].inUse

\* C30: a Release for a key that has an entry clears the entry's in-use flag,
\* sets its last-used time to the time of the call and changes nothing else of
\* the pool: the entry stays, with its client, and so does every other entry
\* and every client; a Release for a key without an entry changes nothing.
C30_ReleaseFrame ==
  [][\A t \in Threads :
       (pc[t] = "freeing" /\ conn[t].IsPooled /\ pc'[t] = "idle") =>
         LET k == configKey(cfg[t]) IN
         /\ cl' = cl
         /\ mu' = mu
         /\ IF k \in DOMAIN clients
            THEN /\ DOMAIN clients' = DOMAIN clients
                 /\ clients'[k] = [client |-> clients[k].client, lastUsed |-> now, inUse |-> FALSE]
                 /\ \A j \in DOMAIN clients \ {k} : clients'[j] = clients[j]
            ELSE clients' = clients
  ]_vars

\* A Release has returned some time after the entry was installed: the entry
\* is idle and carries the time of the Release, while the other key's entry
\* is still in use.
C30_Witness ==
  /\ op = "Release"
  /\ now > 0
  /\ \E k, j \in DOMAIN clients :
       /\ ~clients[k].inUse /\ clients[k].lastUsed = now
       /\ clients[j].inUse /\ clients[j].lastUsed < now

\* A Release has returned for a key whose entry Pool.Close had removed.
C30_WitnessUnknownKey ==
  /\ op = "Release"
  /\ clients = <<>>
  /\ \A t \in Threads : pc[t] = "idle"

\* C22: a Get for a key whose idle entry holds a client whose transport has
\* failed does not hand that client out: it closes the client, removes the
\* entry and goes on to connect.
C22_DeadClientReplaced ==
  [][\A t \in Threads :
       LET k == configKey(cfg'[t]) IN
       (/\ pc[t] = "idle" /\ pc'[t] # "idle"
        /\ k \in DOMAIN clients /\ ~clients[k].inUse
        /\ clients[k].client \in dead) =>
            /\ pc'[t] = "connecting"
            /\ cl'[clients[k].client].closes = cl[clients[k].client].closes + 1
            /\ k \notin DOMAIN clients'
  ]_vars

\* C29: the name extractTableName reads from the query buildProjectedQuery
\* built for a table name and a column list is that table name.
C29_ExtractInvertsBuild ==
  qbOut # <<>> => qbOut.name = qbIn.table

\* C21: a call whose SQL is empty, longer than 1 MiB or holds a NUL byte sets
\* an error and makes no Client.Execute call; a call whose SQL is null leaves
\* a null result, no error, and makes no Client.Execute call.
C21_ExecuteValidates ==
  exOut # <<>> =>
    /\ (/\ ~exIn.null
        /\ \/ Len(exIn.sql.head) + exIn.sql.pad = 0
           \/ Len(exIn.sql.head) + exIn.sql.pad > 1048576
           \/ "NUL" \in {exIn.sql.head[i] : i \in 1..Len(exIn.sql.head)})
        => (exOut.error # "" /\ exOut.executes = 0)
    /\ exIn.null => (exOut.error = "" /\ exOut.null /\ exOut.executes = 0)

\* C27: a metadata call runs the information_schema query exactly when the
\* structured request failed, and not more than once; when both fail, the
\* error it returns reports both failures.
C27_FallbackOnceBothReported ==
  mdOut # <<>> =>
    /\ mdOut.sqlCalls = (IF mdIn.adbc.err # "" THEN 1 ELSE 0)
    /\ (mdIn.adbc.err # "" /\ mdIn.sql.err # "") =>
          (mdOut.err # "" /\ mdOut.reports = {"adbc", "sql"})

\* C28: a column read through the structured request is reported nullable
\* when xdbc_nullable is 1 or 2, when the value is null and when the field
\* is absent, and not nullable when it is 0.
C28_NullableUnlessZero ==
  (mdOut # <<>> /\ mdIn.fn = "GetColumns" /\ mdIn.adbc.err = "") =>
    /\ Len(mdOut.result) = Len(mdIn.adbc.rows)
    /\ \A i \in 1..Len(mdIn.adbc.rows) :
         mdOut.result[i].Nullable =
           ~(mdIn.adbc.hasNullable /\ ~mdIn.adbc.rows[i].isNull /\ mdIn.adbc.rows[i].xdbc = 0)

\* C24: a lookup that finds the key of its name in the cache returns the
\* cached entry, calls GetColumns not at all and leaves the cache alone; the
\* entry cached under a key stays the same entry, so that every later lookup,
\* in whatever letter case, returns it; a lookup on a miss for which
\* GetColumns returns no columns returns not-found and leaves the cache alone.
C24_LookupCacheFirst ==
  [][/\ \A k \in DOMAIN tcache : k \in DOMAIN tcache' /\ tcache'[k] = tcache[k]
     /\ \A t \in Threads :
          LET k == [i \in DOMAIN lk'[t].name |->
                      IF lk'[t].name[i] = "T" THEN "t" ELSE lk'[t].name[i]]
          IN /\ (lk'[t] # lk[t] /\ lk[t].pc # "create" /\ k \in DOMAIN tcache) =>
                  /\ lk'[t].pc = "done"
                  /\ lk'[t].ret = tcache[k]
                  /\ lk'[t].calls = 0
                  /\ tcache' = tcache
             /\ (lk[t].pc = "create" /\ lk'[t].pc = "done" /\ lk'[t].ret = 0) =>
                  /\ lk'[t].calls = 1
                  /\ tcache' = tcache
  ]_vars

\* C25: when ScanSchemas returns without an error, the callback has been
\* handed one schema entry for each name the list of schemas held.
C25_ScanSchemasHandsAll ==
  (cop.op = "ScanSchemas" /\ cop.error = "") => cop.handed = cop.listed

\* C26: each write operation of the catalog and of a schema entry ends in
\* NotImplementedException and changes neither the schema cache nor a
\* table cache.
C26_WritesRejected ==
  [][\A w \in {"CreateSchema", "DropSchema", "PlanCreateTableAs", "PlanInsert", "PlanDelete",
               "PlanUpdate", "BindCreateIndex", "CreateTable", "CreateView", "CreateIndex",
               "DropEntry", "Alter"} :
       (cop' # cop /\ cop'.op = w) =>
          /\ cop'.error = "NotImplementedException"
          /\ scache' = scache
          /\ tcache' = tcache
          /\ nent' = nent
  ]_vars

\* A write operation has returned while both caches held entries.
C26_Witness ==
  /\ cop.op = "DropEntry"
  /\ cop.error = "NotImplementedException"
  /\ scache = {<<"s">>, <<"r">>}
  /\ tcache # <<>>

\* C23: when a host operation has returned, every C string the extension
\* handed to the host has been freed exactly once, and by the host.
C23_StringsFreedOnce ==
  \A i \in DOMAIN heap : heap[i].frees = 1 /\ heap[i].by = "host"

\* C31: no thread is inside a call into the Flight client (Connect) while it
\* holds the pool mutex.
C31_NoCallUnderMutex ==
  \A t \in Threads : pc[t] = "connecting" => mu # t

\* C32: an operation called out of order on a scan handle returns an error and
\* changes nothing: a next before any init has stored a reader returns a
\* negative value and leaves the handle, the batches and the readers as they
\* are, and an init on a handle that already holds the reader of an earlier
\* init leaves its statement, reader and current batch as they are.
C32_OutOfOrderRejected ==
  [][/\ (scan.state = "bound" /\ scan.Reader = 0 /\ ~scan.Done /\ last' # last) =>
          (last'.ret < 0 /\ scan' = scan /\ refs' = refs /\ readers' = readers)
     /\ (scan.state = "bound" /\ scan.Reader # 0 /\ scan'.inits # scan.inits) =>
          (/\ scan'.Stmt = scan.Stmt
           /\ scan'.Reader = scan.Reader
           /\ scan'.CurrentBatch = scan.CurrentBatch)]_vars

\* The next-before-init half of C32 alone.
C32_NextBeforeInit ==
  [][(scan.state = "bound" /\ scan.Reader = 0 /\ ~scan.Done /\ last' # last) =>
       (last'.ret < 0 /\ scan' = scan /\ refs' = refs /\ readers' = readers)]_vars

\* C33: a caller that has returned holds no connection; a connection leaves
\* its holder only by being given back, through Release (which clears the
\* in-use flag of the holder's key) when it was handed out as pooled and
\* through one Close of the client when it was not; and no client is closed and
\* no in-use flag cleared except by such a give-back or by Get replacing an
\* idle entry.
C33_GivenBackOnce ==
  [][/\ \A t \in Threads :
          /\ pc'[t] = "idle" => conn'[t] = NoConn
          /\ (conn[t] # NoConn /\ conn'[t] # conn[t]) =>
               /\ conn'[t] = NoConn
               /\ pc[t] = "freeing"
               /\ IF conn[t].IsPooled
                  THEN /\ op' = "Release"
                       /\ cl' = cl
                       /\ KeyBytes(cfg[t]) \in DOMAIN clients
                       /\ ~clients'[KeyBytes(cfg[t])].inUse
                  ELSE /\ cl'[conn[t].Client].closes = cl[conn[t].Client].closes + 1
                       /\ cl[conn[t].Client].closes = 0
                       /\ clients' = clients
     /\ \A id \in DOMAIN cl :
          cl'[id].closes # cl[id].closes =>
             \/ \E t \in Threads : conn[t] = [Client |-> id, IsPooled |-> FALSE] /\ conn'[t] = NoConn
             \/ \E k \in DOMAIN clients : clients[k].client = id /\ ~clients[k].inUse
     /\ \A k \in DOMAIN clients :
          (clients[k].inUse /\ (k \notin DOMAIN clients' \/ ~clients'[k].inUse)) =>
             \E t \in Threads : /\ conn[t] = [Client |-> clients[k].client, IsPooled |-> TRUE]
                                /\ conn'[t] = NoConn]_vars

\* The scan was freed and has given its connection back, a pooled connection
\* was released and an unmanaged client closed.
C33_Witness ==
  /\ scan.state = "freed"
  /\ \A t \in Threads : pc[t] = "idle" /\ conn[t] = NoConn
  /\ op = "Release"
  /\ \E id \in DOMAIN cl : cl[id].closes = 1
  /\ \E k \in DOMAIN clients : ~clients[k].inUse

\* C34: a next call in which Reader.Next() fails with a reader error returns a
\* negative value, leaves the scan not Done, and leaves no batch retained: the
\* handle has no current batch and every batch retained was released.
C34_ReaderErrorReturn ==
  [][(/\ scan.state = "bound"
      /\ scan.Reader # 0
      /\ ~readers[scan.Reader].err
      /\ readers'[scan.Reader].err) =>
        /\ last'.ret < 0
        /\ last'.adv
        /\ ~last'.emit
        /\ ~scan'.Done
        /\ scan'.CurrentBatch = <<>>
        /\ \A b \in DOMAIN refs' : refs'[b].ret = refs'[b].rel]_vars

\* The reader failed after it had delivered a batch: the call returned -1 and
\* the batch has been released.
C34_Witness ==
  /\ scan.state = "bound"
  /\ scan.Reader # 0
  /\ readers[scan.Reader].err
  /\ readers[scan.Reader].n >= 1
  /\ last.ret = -1
  /\ last.adv
  /\ refs # <<>>
  /\ ~scan.Done

\* C35: a next call returns 0 only when its reader is exhausted: while the
\* reader has not reported the end of the stream, next returns a positive row
\* count or a negative value, also for a record batch of zero rows.
C35_ZeroOnlyAtEnd ==
  [][(/\ scan.state = "bound"
      /\ scan'.state = "bound"
      /\ scan.Reader # 0
      /\ last' # last
      /\ last'.ret = 0) => readers'[scan.Reader].eos]_vars

\* C35 for a handle that was initialized once and for calls that do not meet a
\* record batch of zero rows.
C35_ZeroOnlyAtEndNonEmpty ==
  [][(/\ scan.state = "bound"
      /\ scan'.state = "bound"
      /\ scan.Reader # 0
      /\ scan.inits = 1
      /\ last' # last
      /\ last'.ret = 0
      /\ ~last'.emit) => readers'[scan.Reader].eos]_vars

\* C36: a pool entry is marked in use only while some caller holds a
\* connection that was handed out as pooled for the entry's key: once the
\* holder has given it back the flag is clear, whatever Get, Release and Close
\* calls were interleaved.
C36_FlagHasHolder ==
  \A k \in DOMAIN clients :
    clients[k].inUse =>
      \E t \in Threads : conn[t].IsPooled /\ KeyBytes(cfg[t]) = k

\* After a Close between a Get and its Release, and a second Get and Release
\* of the same key, the entry is there, idle, and nobody holds a connection.
C36_Witness ==
  /\ op = "Release"
  /\ \A t \in Threads : conn[t] = NoConn /\ pc[t] = "idle"
  /\ \E k \in DOMAIN clients : ~clients[k].inUse /\ clients[k].client >= 2
  /\ \E id \in DOMAIN cl : cl[id].closes >= 1

\* C37: every table entry a lookup has returned is the entry the table cache
\* holds under the looked-up name: it was installed once and has not been
\* replaced by the entry of a concurrent lookup of the same name.
C37_ReturnedEntryStays ==
  \A t \in Threads :
    (lk[t].pc = "done" /\ lk[t].ret # 0) =>
      /\ ToLower(lk[t].name) \in DOMAIN tcache
      /\ tcache[ToLower(lk[t].name)] = lk[t].ret

\* C37 for the lookups of one thread while the other makes none.
C37_ReturnedEntryStaysAlone ==
  lk["t2"] = NoLookup =>
    ((lk["t1"].pc = "done" /\ lk["t1"].ret # 0) =>
       /\ ToLower(lk["t1"].name) \in DOMAIN tcache
       /\ tcache[ToLower(lk["t1"].name)] = lk["t1"].ret)

\* C38: a chunk next emits has as many output columns written as the
\* projection recorded at init has entries, and output column i is filled
\* from the bound column ProjectedColumns[i].
C38_ChunkFollowsProjection ==
  (projOut # <<>> /\ "written" \in DOMAIN projOut) =>
    /\ Len(projOut.written) = Len(projOut.ProjectedColumns)
    /\ \A i \in 1..Len(projOut.ProjectedColumns) :
         /\ projOut.ProjectedColumns[i] >= 0
         /\ projOut.ProjectedColumns[i] < Len(projIn.ColumnNames)
         /\ projOut.written[i] = projIn.ColumnNames[projOut.ProjectedColumns[i] + 1]

\* C38 for the projections that are neither empty nor as long as the column
\* list, and for the full column list in its order.
C38_ChunkFollowsPartialProjection ==
  (/\ projOut # <<>>
   /\ "written" \in DOMAIN projOut
   /\ \/ Len(projIn.columnIDs) \notin {0, Len(projIn.ColumnNames)}
      \/ projIn.columnIDs = [i \in 1..Len(projIn.ColumnNames) |-> i - 1]) =>
    /\ Len(projOut.written) = Len(projOut.ProjectedColumns)
    /\ \A i \in 1..Len(projOut.ProjectedColumns) :
         /\ projOut.ProjectedColumns[i] >= 0
         /\ projOut.ProjectedColumns[i] < Len(projIn.ColumnNames)
         /\ projOut.written[i] = projIn.ColumnNames[projOut.ProjectedColumns[i] + 1]

\* C39: the config with which the scan of a table of an attached catalog
\* asks for its connection carries the username and password of that
\* catalog's ATTACH, which are those of the attach-time connection.
C39_ScanUsesAttachCredentials ==
  (scanOf # 0 /\ pc["t1"] \in {"connecting", "holding"}) =>
    /\ cfg["t1"].Username = catalogs[scanOf].username
    /\ cfg["t1"].Password = catalogs[scanOf].password
    /\ cfg["t1"].Username = handles[catalogs[scanOf].opened].Username
    /\ cfg["t1"].Password = handles[catalogs[scanOf].opened].Password

\* C39 while the global configuration has the credentials of the ATTACH.
C39_ScanUsesAttachCredentialsSameGlobal ==
  (/\ scanOf # 0
   /\ pc["t1"] \in {"connecting", "holding"}
   /\ gcfg.username = catalogs[scanOf].username
   /\ gcfg.password = catalogs[scanOf].password) =>
    /\ cfg["t1"].Username = handles[catalogs[scanOf].opened].Username
    /\ cfg["t1"].Password = handles[catalogs[scanOf].opened].Password

\* C40: the connection of a catalog that was detached has been closed and its
\* handle deleted.
C40_DetachClosesConnection ==
  \A i \in DOMAIN catalogs :
    ~catalogs[i].attached =>
      /\ handles[catalogs[i].opened].deleted
      /\ cl[handles[catalogs[i].opened].Client].closes >= 1

====
